---------------------------- MODULE Spec2Model ----------------------------
(***************************************************************************)
(* A model of MemStore (src/os/MemStore.h): the Collection's two indices   *)
(* and their RWLock, the omap iterator and the object's omap_mutex, the    *)
(* versioned encoding of Object and Collection, and the application of     *)
(* transaction batches under apply_lock.                                   *)
(*                                                                         *)
(* Five specifications share the module's variables; each leaves the       *)
(* variables of the other parts at their initial values:                   *)
(*   Spec       the Collection indices (get_object, get_or_create_object,  *)
(*              remove, decode's inserts)                                  *)
(*   SpecUsedBytes  the same, with threads that also call used_bytes       *)
(*   SpecOmap   OmapIteratorImpl against a thread mutating the omap        *)
(*   SpecCodec  encode / decode of a Collection over a stream of words     *)
(*   SpecTxn    queue_transactions under apply_lock                        *)
(***************************************************************************)
EXTENDS Integers, Sequences, FiniteSets, TLC

(***************************************************************************)
(* Bounds of the model.                                                    *)
(***************************************************************************)
MaxKey == 2
MaxObjs == 2
MaxSize == 1
MaxDecode == 2
MaxOKey == 2
MaxVal == 2
MaxCKey == 2
PageSize == 2
MaxCompat == 2
MaxBatches == 3
HashBits == 2
MaxList == 2
MaxName == 2
MaxListObjs == 3
MaxRefObjs == 2
MaxOps == 2

\* ObjectRef(): the empty reference (a null intrusive_ptr).
NullRef == 0

\* The store's threads; 0 names no thread.
Threads == {1, 2}
Keys == 1..MaxKey
Sizes == 0..MaxSize
\* object_map.end(): the position after the greatest key.
End == MaxKey + 1
OKeys == 1..MaxOKey
Vals == 1..MaxVal
\* omap.end()
OEnd == MaxOKey + 1

VARIABLES
  \* ---- Collection ----
  phase,        \* "fresh" | "decoding" | "loaded" | "shared"
  use_page_set, \* Collection::use_page_set
  object_hash,  \* Collection::object_hash: key -> ObjectRef (NullRef: empty)
  object_map,   \* Collection::object_map:  key -> ObjectRef
  lock,         \* Collection::lock: [w |-> writer or 0, r |-> set of readers]
  objects,      \* the constructed Objects, by identity: [size, paged]
  th,           \* per thread: the call in progress and its locals
  dec,          \* the decode in progress: [s, k, o, step]
  hist          \* per key, since its last removal: [obj, ctor]

collVars == <<phase, use_page_set, object_hash, object_map, lock, objects,
              th, dec, hist>>

VARIABLES
  \* ---- one Object's omap and an OmapIteratorImpl over it ----
  omap,         \* Object::omap: key -> value
  omap_mutex,   \* Object::omap_mutex: "free", or its holder "iter" | "mut"
  it,           \* OmapIteratorImpl::it: the key of its node, or OEnd
  it_dangling,  \* the node `it' names has been erased
  iter,         \* the iterator's caller: [pc, op, arg, ret]
  mut,          \* the thread applying omap updates: its pc
  seek          \* the last positioning: [kind, arg, fresh]

omapVars == <<omap, omap_mutex, it, it_dangling, iter, mut, seek>>

VARIABLES
  \* ---- encode / decode of a Collection ----
  cstage,       \* "src" | "encoded" | "decoded"
  csrc,         \* the Collection that is encoded
  cstream,      \* the encoded stream, a sequence of words
  ctamper,      \* what was done to the stream after encode
  cdst          \* the outcome of decode: [ok, coll]

codecVars == <<cstage, csrc, cstream, ctamper, cdst>>

VARIABLES
  \* ---- MemStore::queue_transactions ----
  apply_lock,   \* MemStore::apply_lock: its holder, or 0
  tx,           \* per thread: the batch it submits and its progress
  applied,      \* the operations applied so far: <<batch, index>>
  nbatch        \* the batches submitted so far

txnVars == <<apply_lock, tx, applied, nbatch>>

VARIABLES
  \* ---- the Sequencers handed to queue_transactions ----
  pending,      \* per sequencer: the batches submitted on it, not yet called
  osr_of        \* per batch, in submission order: its sequencer

seqVars == <<pending, osr_of>>

VARIABLES
  \* ---- MemStore::_do_transaction over the registry ----
  coll_map,     \* MemStore::coll_map: collection -> the keys of its objects
  eng           \* the engine: Idle or Applying, the operation at hand, its status

storeVars == <<coll_map, eng>>

VARIABLES
  \* ---- MemStore::collection_list, called in a loop ----
  lkeys,        \* the ghobject_t keys of the Collection's object_map
  lcur,         \* the start cursor of the next call
  lout,         \* the identifiers the calls have returned so far
  lpc           \* "filling" | "listing" | "done"

listVars == <<lkeys, lcur, lout, lpc>>

VARIABLES
  \* ---- the payloads of two objects of one Collection ----
  pay,          \* object -> [paged, data, data_len, pages]
  pheap,        \* page -> its bytes; <<>> when no object holds the page
  plast         \* the operation applied last: its kind, its object, whether
                \* it copied a page held in common, and for a truncate
                \* whether it cut nonzero bytes inside a page ("cut") or
                \* grew the object right after such a cut ("regrown")

payVars == <<pay, pheap, plast>>

VARIABLES
  \* ---- the references to the objects of one key of a Collection ----
  rhash,        \* object_hash[oid]: the object, or NullRef when absent
  rmap,         \* object_map[oid]: the object, or NullRef when absent
  robj,         \* object -> [made, nref, alive, data, born]
  rlock,        \* Collection::lock: [w, r]
  rth           \* thread -> [pc, found, ref, ret]

refVars == <<rhash, rmap, robj, rlock, rth>>

VARIABLES
  \* ---- the locks of a Collection and of one of its objects ----
  klock,        \* Collection::lock: [w, r]
  olock,        \* xattr_mutex, omap_mutex, BufferlistObject::mutex -> holder
  kth           \* thread -> [pc, op, want]

lockVars == <<klock, olock, kth>>

VARIABLES
  \* ---- a caller walking an omap that nothing updates ----
  womap,        \* o->omap
  wit,          \* OmapIteratorImpl::it
  wpc,          \* "start" | "test" | "key" | "value" | "step" | "done"
  wret,         \* the operation called last and what it returned
  wseen         \* the pairs key() and value() returned since the walk began

walkVars == <<womap, wit, wpc, wret, wseen>>

\* The parts of the state added to the four above.
extVars == <<seqVars, storeVars, listVars, payVars, refVars, lockVars,
             walkVars>>

vars == <<collVars, omapVars, codecVars, txnVars, extVars>>

notColl == <<omapVars, codecVars, txnVars, extVars>>
notOmap == <<collVars, codecVars, txnVars, extVars>>
notCodec == <<collVars, omapVars, txnVars, extVars>>
notTxn == <<collVars, omapVars, codecVars, extVars>>

(***************************************************************************)
(* Finite maps.                                                            *)
(***************************************************************************)
EmptyMap == [k \in {} |-> 0]
Erase(m, k) == [x \in (DOMAIN m) \ {k} |-> m[x]]
Put(m, k, v) == [x \in (DOMAIN m) \cup {k} |-> IF x = k THEN v ELSE m[x]]
\* std::map::insert / unordered_map::insert: no effect when the key exists.
Insert(m, k, v) == IF k \in DOMAIN m THEN m ELSE Put(m, k, v)

\* The first key of object_map after k (k = 0: object_map.begin()).
NextKey(m, k) ==
  LET above == {x \in DOMAIN m : x > k}
  IN  IF above = {} THEN End
      ELSE CHOOSE x \in above : \A y \in above : x <= y

Idle == [pc |-> "idle", op |-> "none", key |-> 0, ret |-> NullRef,
         ins |-> FALSE, it |-> End, dangling |-> FALSE, result |-> 0,
         sums |-> {}]

NoDecode == [s |-> 0, k |-> 0, o |-> NullRef, step |-> "next"]


(***************************************************************************)
(* Collection::lock, an RWLock.                                            *)
(***************************************************************************)
CanRead == lock.w = 0
CanWrite == lock.w = 0 /\ lock.r = {}
RLocked(t) == [lock EXCEPT !.r = @ \cup {t}]
\* The lock taken in read mode where the code takes it in write mode.
WLockedShared(t) == [lock EXCEPT !.r = @ \cup {t}]
WLocked(t) == [lock EXCEPT !.w = t]
Unlocked(t) == [w |-> IF lock.w = t THEN 0 ELSE lock.w, r |-> lock.r \ {t}]

Ready(t) == th[t].pc = "idle"
InUsedBytes(r) == r.op = "used_bytes" /\ r.pc = "ub_iter"

SumOf(m, objs) ==
  LET RECURSIVE S(_)
      S(ks) == IF ks = {} THEN 0
               ELSE LET k == CHOOSE x \in ks : TRUE
                    IN  (IF m[k] = NullRef THEN 0 ELSE objs[m[k]].size)
                        + S(ks \ {k})
  IN  S(DOMAIN m)

(***************************************************************************)
(* Collection::create_object (lines 170-174): a BufferlistObject or a      *)
(* PageSetObject by use_page_set, empty.                                   *)
(***************************************************************************)
create_object_buffer(flag) == [size |-> 0, paged |-> FALSE]

create_object(flag) == [size |-> 0, paged |-> flag]

(***************************************************************************)
(* Collection::get_object (lines 181-187).                                 *)
(***************************************************************************)
get_object_lock(t, k) ==
  /\ phase = "shared" /\ Ready(t) /\ CanRead
  /\ lock' = RLocked(t)
  /\ th' = [th EXCEPT ![t] = [Idle EXCEPT !.pc = "go_find", !.op = "get_object",
                                          !.key = k]]
  /\ UNCHANGED <<phase, use_page_set, object_hash, object_map, objects, dec, hist>>
  /\ UNCHANGED notColl

\* object_hash.find(oid): the stored reference, or ObjectRef() at end().
HashFind(k) == IF k \in DOMAIN object_hash THEN object_hash[k] ELSE NullRef

\* operator[] in place of find: a lookup that default-inserts the key.
HashAfterIndex(k) == Insert(object_hash, k, NullRef)

\* object_hash after find(oid): find inserts nothing.
HashAfterFind(k) == object_hash

\* lines 183-186
get_object_find(t) ==
  /\ th[t].pc = "go_find"
  /\ th' = [th EXCEPT ![t].pc = "go_ret", ![t].ret = HashFind(th[t].key)]
  /\ object_hash' = HashAfterFind(th[t].key)
  /\ UNCHANGED <<phase, use_page_set, object_map, lock, objects, dec, hist>>
  /\ UNCHANGED notColl

get_object_return(t) ==
  /\ th[t].pc = "go_ret"
  /\ lock' = Unlocked(t)
  /\ th' = [th EXCEPT ![t] = Idle]
  /\ UNCHANGED <<phase, use_page_set, object_hash, object_map, objects, dec, hist>>
  /\ UNCHANGED notColl

(***************************************************************************)
(* Collection::get_or_create_object (lines 189-195).                       *)
(***************************************************************************)
get_or_create_object_lock(t, k) ==
  /\ phase = "shared" /\ Ready(t) /\ CanWrite
  /\ Len(objects) < MaxObjs
  /\ lock' = WLocked(t)
  /\ th' = [th EXCEPT ![t] = [Idle EXCEPT !.pc = "goc_emplace",
                                          !.op = "get_or_create_object",
                                          !.key = k]]
  /\ UNCHANGED <<phase, use_page_set, object_hash, object_map, objects, dec, hist>>
  /\ UNCHANGED notColl

\* An emplace that reports an insertion also when the key exists.
EmplaceInsertedAlways(k) == TRUE

\* result.second of line 191: whether emplace inserted the key.
EmplaceInserted(k) == k \notin DOMAIN object_hash

\* line 191: object_hash.emplace(oid, ObjectRef()); result.second is `ins'.
get_or_create_object_emplace(t) ==
  /\ th[t].pc = "goc_emplace"
  /\ LET k == th[t].key
         fresh == EmplaceInserted(k)
     IN  /\ object_hash' = Insert(object_hash, k, NullRef)
         /\ th' = [th EXCEPT ![t].pc = IF fresh THEN "goc_create" ELSE "goc_ret",
                             ![t].ins = fresh]
  /\ UNCHANGED <<phase, use_page_set, object_map, lock, objects, dec, hist>>
  /\ UNCHANGED notColl

\* line 193, right to left: result.first->second = create_object()
get_or_create_object_create(t) ==
  /\ th[t].pc = "goc_create"
  /\ objects' = Append(objects, create_object(use_page_set))
  /\ object_hash' = Put(object_hash, th[t].key, Len(objects) + 1)
  /\ hist' = [hist EXCEPT ![th[t].key].ctor = @ + 1]
  /\ th' = [th EXCEPT ![t].pc = "goc_map"]
  /\ UNCHANGED <<phase, use_page_set, object_map, lock, dec>>
  /\ UNCHANGED notColl

\* object_map[oid] default-constructed and never assigned the new object.
GocMapValueNull(t) == NullRef

\* The value line 193 stores under oid in the iteration index.
GocMapValue(t) == object_hash[th[t].key]

\* line 193: object_map[oid] = (the reference just stored in object_hash)
get_or_create_object_map(t) ==
  /\ th[t].pc = "goc_map"
  /\ object_map' = Put(object_map, th[t].key, GocMapValue(t))
  /\ th' = [th EXCEPT ![t].pc = "goc_ret"]
  /\ UNCHANGED <<phase, use_page_set, object_hash, lock, objects, dec, hist>>
  /\ UNCHANGED notColl

\* line 194: return result.first->second
get_or_create_object_return(t) ==
  /\ th[t].pc = "goc_ret"
  /\ th' = [th EXCEPT ![t].pc = "goc_unlock", ![t].ret = object_hash[th[t].key]]
  /\ hist' = [hist EXCEPT ![th[t].key].obj = object_hash[th[t].key]]
  /\ UNCHANGED <<phase, use_page_set, object_hash, object_map, lock, objects, dec>>
  /\ UNCHANGED notColl

\* line 195: ~WLocker
get_or_create_object_unlock(t) ==
  /\ th[t].pc = "goc_unlock"
  /\ lock' = Unlocked(t)
  /\ th' = [th EXCEPT ![t] = Idle]
  /\ UNCHANGED <<phase, use_page_set, object_hash, object_map, objects, dec, hist>>
  /\ UNCHANGED notColl


(***************************************************************************)
(* MemStore::_remove (declared at line 309; its body is in MemStore.cc):   *)
(* under the collection's write lock, the object is erased from            *)
(* object_hash and then from object_map; -ENOENT when it is absent.        *)
(***************************************************************************)
remove_lock(t, k) ==
  /\ phase = "shared" /\ Ready(t) /\ CanWrite
  /\ lock' = WLocked(t)
  /\ th' = [th EXCEPT ![t] = [Idle EXCEPT !.pc = "rm_find", !.op = "remove",
                                          !.key = k]]
  /\ UNCHANGED <<phase, use_page_set, object_hash, object_map, objects, dec, hist>>
  /\ UNCHANGED notColl

remove_erase_hash(t) ==
  /\ th[t].pc = "rm_find"
  /\ LET k == th[t].key
     IN  IF k \in DOMAIN object_hash
         THEN /\ object_hash' = Erase(object_hash, k)
              /\ hist' = [hist EXCEPT ![k] = [obj |-> NullRef, ctor |-> 0]]
              /\ th' = [th EXCEPT ![t].pc = "rm_map", ![t].ret = object_hash[k]]
         ELSE /\ th' = [th EXCEPT ![t].pc = "rm_ret"]
              /\ UNCHANGED <<object_hash, hist>>
  /\ UNCHANGED <<phase, use_page_set, object_map, lock, objects, dec>>
  /\ UNCHANGED notColl

\* A used_bytes cursor on the erased node is left dangling; every running
\* used_bytes has one more index content to have summed.
remove_erase_map(t) ==
  /\ th[t].pc = "rm_map"
  /\ object_map' = Erase(object_map, th[t].key)
  /\ th' = [u \in Threads |->
              IF u = t THEN [th[t] EXCEPT !.pc = "rm_ret"]
              ELSE IF InUsedBytes(th[u])
              THEN [th[u] EXCEPT
                      !.dangling = @ \/ th[u].it = th[t].key,
                      !.sums = @ \cup {SumOf(object_map', objects)}]
              ELSE th[u]]
  /\ UNCHANGED <<phase, use_page_set, object_hash, lock, objects, dec, hist>>
  /\ UNCHANGED notColl

remove_return(t) ==
  /\ th[t].pc = "rm_ret"
  /\ lock' = Unlocked(t)
  /\ th' = [th EXCEPT ![t] = Idle]
  /\ UNCHANGED <<phase, use_page_set, object_hash, object_map, objects, dec, hist>>
  /\ UNCHANGED notColl

(***************************************************************************)
(* Collection::used_bytes (lines 228-237): walks object_map from begin()   *)
(* to end() adding get_size(); it takes no lock.  Incrementing or reading  *)
(* through a cursor whose node was erased is undefined: any size is read   *)
(* and the cursor lands on any node of the map or on end().                *)
(***************************************************************************)
used_bytes_begin(t) ==
  /\ phase \in {"loaded", "shared"} /\ Ready(t)
  /\ th' = [th EXCEPT ![t] = [Idle EXCEPT !.pc = "ub_iter", !.op = "used_bytes",
                                          !.it = NextKey(object_map, 0),
                                          !.sums = {SumOf(object_map, objects)}]]
  /\ UNCHANGED <<phase, use_page_set, object_hash, object_map, lock, objects,
                 dec, hist>>
  /\ UNCHANGED notColl

used_bytes_step(t) ==
  /\ th[t].pc = "ub_iter" /\ th[t].it # End
  /\ IF th[t].dangling
     THEN \E sz \in Sizes, nx \in (DOMAIN object_map) \cup {End} :
            th' = [th EXCEPT ![t].result = @ + sz, ![t].it = nx,
                             ![t].dangling = FALSE]
     ELSE th' = [th EXCEPT ![t].result = @ + objects[object_map[th[t].it]].size,
                           ![t].it = NextKey(object_map, th[t].it)]
  /\ UNCHANGED <<phase, use_page_set, object_hash, object_map, lock, objects,
                 dec, hist>>
  /\ UNCHANGED notColl

used_bytes_return(t) ==
  /\ th[t].pc = "ub_iter" /\ th[t].it = End
  /\ th' = [th EXCEPT ![t].pc = "ub_ret", ![t].ret = th[t].result]
  /\ UNCHANGED <<phase, use_page_set, object_hash, object_map, lock, objects,
                 dec, hist>>
  /\ UNCHANGED notColl

used_bytes_done(t) ==
  /\ th[t].pc = "ub_ret"
  /\ th' = [th EXCEPT ![t] = Idle]
  /\ UNCHANGED <<phase, use_page_set, object_hash, object_map, lock, objects,
                 dec, hist>>
  /\ UNCHANGED notColl

(***************************************************************************)
(* Collection::decode (lines 211-226), as seen by the indices: the flag,   *)
(* then per object of the stream its key and its payload size.  The        *)
(* Collection is one under construction: MemStore::_load (MemStore.cc)     *)
(* decodes into a new Collection and only then enters it in coll_map.      *)
(***************************************************************************)
decode_begin(flag, s) ==
  /\ phase = "fresh"
  /\ phase' = "decoding"
  /\ use_page_set' = flag
  /\ dec' = [NoDecode EXCEPT !.s = s]
  /\ UNCHANGED <<object_hash, object_map, lock, objects, th, hist>>
  /\ UNCHANGED notColl

\* lines 217-221: while (s--) { decode k; o = create_object(); o->decode(p)
decode_object(k, size) ==
  /\ phase = "decoding" /\ dec.step = "next" /\ dec.s > 0
  /\ objects' = Append(objects, [create_object(use_page_set) EXCEPT
                                   !.size = size])
  /\ dec' = [s |-> dec.s - 1, k |-> k, o |-> Len(objects) + 1, step |-> "map"]
  /\ UNCHANGED <<phase, use_page_set, object_hash, object_map, lock, th, hist>>
  /\ UNCHANGED notColl

\* line 222: object_map.insert(make_pair(k, o))
decode_insert_map ==
  /\ phase = "decoding" /\ dec.step = "map"
  /\ object_map' = Insert(object_map, dec.k, dec.o)
  /\ dec' = [dec EXCEPT !.step = "hash"]
  /\ UNCHANGED <<phase, use_page_set, object_hash, lock, objects, th, hist>>
  /\ UNCHANGED notColl

\* line 223: object_hash.insert(make_pair(k, o))
decode_insert_hash ==
  /\ phase = "decoding" /\ dec.step = "hash"
  /\ object_hash' = Insert(object_hash, dec.k, dec.o)
  /\ dec' = [dec EXCEPT !.step = "next"]
  /\ UNCHANGED <<phase, use_page_set, object_map, lock, objects, th, hist>>
  /\ UNCHANGED notColl

decode_finish ==
  /\ phase = "decoding" /\ dec.step = "next" /\ dec.s = 0
  /\ phase' = "loaded"
  /\ dec' = NoDecode
  /\ UNCHANGED <<use_page_set, object_hash, object_map, lock, objects, th, hist>>
  /\ UNCHANGED notColl

(***************************************************************************)
(* The Collection becomes reachable by the store's threads: coll_map[cid]  *)
(* = c in MemStore::_create_collection and MemStore::_load (MemStore.cc).  *)
(***************************************************************************)
publish ==
  /\ phase \in {"fresh", "loaded"}
  /\ \A t \in Threads : Ready(t)
  /\ phase' = "shared"
  /\ UNCHANGED <<use_page_set, object_hash, object_map, lock, objects, th, dec,
                 hist>>
  /\ UNCHANGED notColl

\* Collection::Collection (lines 239-241): empty indices, flag from the conf.
InitColl ==
  /\ phase = "fresh"
  /\ use_page_set \in BOOLEAN
  /\ object_hash = EmptyMap
  /\ object_map = EmptyMap
  /\ lock = [w |-> 0, r |-> {}]
  /\ objects = <<>>
  /\ th = [t \in Threads |-> Idle]
  /\ dec = NoDecode
  /\ hist = [k \in Keys |-> [obj |-> NullRef, ctor |-> 0]]

NextIndex ==
  \/ \E flag \in BOOLEAN, s \in 0..MaxDecode : decode_begin(flag, s)
  \/ \E k \in Keys, size \in Sizes : decode_object(k, size)
  \/ decode_insert_map
  \/ decode_insert_hash
  \/ decode_finish
  \/ publish
  \/ \E t \in Threads, k \in Keys : get_object_lock(t, k)
  \/ \E t \in Threads : get_object_find(t)
  \/ \E t \in Threads : get_object_return(t)
  \/ \E t \in Threads, k \in Keys : get_or_create_object_lock(t, k)
  \/ \E t \in Threads : get_or_create_object_emplace(t)
  \/ \E t \in Threads : get_or_create_object_create(t)
  \/ \E t \in Threads : get_or_create_object_map(t)
  \/ \E t \in Threads : get_or_create_object_return(t)
  \/ \E t \in Threads : get_or_create_object_unlock(t)
  \/ \E t \in Threads, k \in Keys : remove_lock(t, k)
  \/ \E t \in Threads : remove_erase_hash(t)
  \/ \E t \in Threads : remove_erase_map(t)
  \/ \E t \in Threads : remove_return(t)

(***************************************************************************)
(* std::map<string,bufferlist> lookups, by a walk in key order.            *)
(***************************************************************************)
RECURSIVE FirstFrom(_, _, _, _)
\* The first key at or after `from' that is in m and is not before k
\* (strict: is after k); OEnd when there is none.
FirstFrom(m, from, k, strict) ==
  IF from > MaxOKey THEN OEnd
  ELSE IF from \in DOMAIN m /\ (IF strict THEN k < from ELSE ~(from < k))
       THEN from
       ELSE FirstFrom(m, from + 1, k, strict)

map_begin(m) == FirstFrom(m, 1, 1, FALSE)
map_upper_bound(m, k) == FirstFrom(m, 1, k, TRUE)
\* A lower_bound that skips an entry equal to the key.
map_lower_bound_strict(m, k) == map_upper_bound(m, k)
map_lower_bound(m, k) == FirstFrom(m, 1, k, FALSE)
\* A ++it that passes over the next node.
map_next_skipping(m, k) ==
  IF map_upper_bound(m, k) = OEnd THEN OEnd
  ELSE map_upper_bound(m, map_upper_bound(m, k))
\* ++it on a node of the map
map_next(m, k) == map_upper_bound(m, k)

IterIdle == [pc |-> "idle", op |-> "none", arg |-> 0, ret |-> 0]
NoSeek == [kind |-> "none", arg |-> 0, fresh |-> FALSE]
IterOps == {"seek_to_first", "upper_bound", "lower_bound", "valid", "next",
            "key", "value"}
SeekOps == {"seek_to_first", "upper_bound", "lower_bound"}

(***************************************************************************)
(* OmapIteratorImpl (lines 246-289).                                       *)
(***************************************************************************)
\* A walk of the map's tree while an update of it is under way is a data
\* race: what the walk finds is not defined.
Racing == mut # "idle"

\* lines 251-252: it(o->omap.begin()), with no lock taken
OmapIteratorImpl ==
  /\ iter.pc = "none"
  /\ IF Racing
     THEN it' \in (DOMAIN omap) \cup {OEnd}
     ELSE it' = map_begin(omap)
  /\ it_dangling' = FALSE
  /\ iter' = IterIdle
  /\ seek' = [kind |-> "seek_to_first", arg |-> 0, fresh |-> ~Racing]
  /\ UNCHANGED <<omap, omap_mutex, mut>>
  /\ UNCHANGED notOmap

\* A call of one of the seven operations.
iter_call(op, arg) ==
  /\ iter.pc = "idle"
  /\ iter' = [pc |-> "guard", op |-> op, arg |-> arg, ret |-> 0]
  /\ UNCHANGED <<omap, omap_mutex, it, it_dangling, mut, seek>>
  /\ UNCHANGED notOmap

\* std::lock_guard<std::mutex>(o->omap_mutex); is an expression statement:
\* the unnamed guard locks the mutex ...
iter_guard_lock ==
  /\ iter.pc = "guard" /\ omap_mutex = "free"
  /\ omap_mutex' = "iter"
  /\ iter' = [iter EXCEPT !.pc = "unguard"]
  /\ UNCHANGED <<omap, it, it_dangling, mut, seek>>
  /\ UNCHANGED notOmap

\* ... and is destroyed, unlocking it, at the end of that statement.
iter_guard_unlock ==
  /\ iter.pc = "unguard"
  /\ omap_mutex' = "free"
  /\ iter' = [iter EXCEPT !.pc = "access"]
  /\ UNCHANGED <<omap, it, it_dangling, mut, seek>>
  /\ UNCHANGED notOmap

\* The cursor names a node of the map: not end(), not an erased node.
OnNode == it # OEnd /\ ~it_dangling

\* lines 256, 261, 266: it = o->omap.begin() / upper_bound / lower_bound
iter_seek ==
  /\ iter.pc = "access" /\ iter.op \in SeekOps
  /\ IF Racing
     THEN it' \in (DOMAIN omap) \cup {OEnd}
     ELSE it' = CASE iter.op = "seek_to_first" -> map_begin(omap)
                  [] iter.op = "upper_bound" -> map_upper_bound(omap, iter.arg)
                  [] iter.op = "lower_bound" -> map_lower_bound(omap, iter.arg)
  /\ it_dangling' = FALSE
  /\ iter' = [iter EXCEPT !.pc = "ret", !.ret = 0]
  /\ seek' = [kind |-> iter.op, arg |-> iter.arg, fresh |-> ~Racing]
  /\ UNCHANGED <<omap, omap_mutex, mut>>
  /\ UNCHANGED notOmap

\* line 271: return it != o->omap.end(); an erased node's address is not
\* end()'s, so a dangling cursor compares unequal.
iter_valid ==
  /\ iter.pc = "access" /\ iter.op = "valid"
  /\ iter' = [iter EXCEPT !.pc = "ret", !.ret = (it # OEnd)]
  /\ UNCHANGED <<omap, omap_mutex, it, it_dangling, mut, seek>>
  /\ UNCHANGED notOmap

\* line 275: ++it.  Undefined on end() and on an erased node, and a race
\* with an update: the cursor lands on any node of the map or on end().
iter_next ==
  /\ iter.pc = "access" /\ iter.op = "next"
  /\ IF OnNode /\ ~Racing
     THEN it' = map_next(omap, it)
     ELSE it' \in (DOMAIN omap) \cup {OEnd}
  /\ it_dangling' = FALSE
  /\ iter' = [iter EXCEPT !.pc = "ret", !.ret = 0]
  /\ seek' = [seek EXCEPT !.fresh = FALSE]
  /\ UNCHANGED <<omap, omap_mutex, mut>>
  /\ UNCHANGED notOmap

\* line 280: return it->first.  Undefined on end() and on an erased node:
\* any key is read (the erased node's own among them).
iter_key ==
  /\ iter.pc = "access" /\ iter.op = "key"
  /\ IF OnNode
     THEN iter' = [iter EXCEPT !.pc = "ret", !.ret = it]
     ELSE \E k \in OKeys : iter' = [iter EXCEPT !.pc = "ret", !.ret = k]
  /\ UNCHANGED <<omap, omap_mutex, it, it_dangling, mut, seek>>
  /\ UNCHANGED notOmap

\* line 284: return it->second.  Undefined as for key().
iter_value ==
  /\ iter.pc = "access" /\ iter.op = "value"
  /\ IF OnNode
     THEN iter' = [iter EXCEPT !.pc = "ret", !.ret = omap[it]]
     ELSE \E v \in Vals : iter' = [iter EXCEPT !.pc = "ret", !.ret = v]
  /\ UNCHANGED <<omap, omap_mutex, it, it_dangling, mut, seek>>
  /\ UNCHANGED notOmap

iter_return ==
  /\ iter.pc = "ret"
  /\ iter' = IterIdle
  /\ UNCHANGED <<omap, omap_mutex, it, it_dangling, mut, seek>>
  /\ UNCHANGED notOmap

(***************************************************************************)
(* MemStore::_omap_setkeys / _omap_rmkeys (declared at lines 318-320,      *)
(* bodies in MemStore.cc): the update is made holding omap_mutex.          *)
(***************************************************************************)
mut_lock ==
  /\ mut = "idle" /\ omap_mutex = "free"
  /\ omap_mutex' = "mut"
  /\ mut' = "locked"
  /\ UNCHANGED <<omap, it, it_dangling, iter, seek>>
  /\ UNCHANGED notOmap

\* o->omap[k] = v
omap_setkeys(k, v) ==
  /\ mut = "locked"
  /\ omap' = Put(omap, k, v)
  /\ mut' = "applied"
  /\ seek' = [seek EXCEPT !.fresh = FALSE]
  /\ UNCHANGED <<omap_mutex, it, it_dangling, iter>>
  /\ UNCHANGED notOmap

\* o->omap.erase(k): a cursor on the erased node is left dangling.
omap_rmkeys(k) ==
  /\ mut = "locked"
  /\ omap' = Erase(omap, k)
  /\ it_dangling' = (it_dangling \/ (k \in DOMAIN omap /\ it = k))
  /\ mut' = "applied"
  /\ seek' = [seek EXCEPT !.fresh = FALSE]
  /\ UNCHANGED <<omap_mutex, it, iter>>
  /\ UNCHANGED notOmap

mut_unlock ==
  /\ mut = "applied"
  /\ omap_mutex' = "free"
  /\ mut' = "idle"
  /\ UNCHANGED <<omap, it, it_dangling, iter, seek>>
  /\ UNCHANGED notOmap

(***************************************************************************)
(* The encoding (include/encoding.h, PageSet.h: not among the sources).    *)
(* A stream is a sequence of words.  An integer or a bool is one word; a   *)
(* string, bufferptr or bufferlist is its length and then its bytes; a map *)
(* is its size and then its pairs in key order; ENCODE_START/FINISH wrap a *)
(* payload as <<struct_v, struct_compat, struct_len>> and the payload.     *)
(***************************************************************************)
EncBool(b) == <<IF b THEN 1 ELSE 0>>
EncBytes(b) == <<Len(b)>> \o b

MinOf(S) == CHOOSE x \in S : \A y \in S : x <= y

RECURSIVE EncPairs(_, _)
EncPairs(m, ks) ==
  IF ks = {} THEN <<>>
  ELSE LET k == MinOf(ks)
       IN  <<k>> \o EncBytes(m[k]) \o EncPairs(m, ks \ {k})

EncMap(m) == <<Cardinality(DOMAIN m)>> \o EncPairs(m, DOMAIN m)

Envelope(v, compat, payload) == <<v, compat, Len(payload)>> \o payload

\* PageSet::encode: the page size, the number of pages, then each page's
\* offset and its page_size bytes.
RECURSIVE EncPages(_, _)
EncPages(pages, offs) ==
  IF offs = {} THEN <<>>
  ELSE LET f == MinOf(offs)
       IN  <<f>> \o pages[f] \o EncPages(pages, offs \ {f})

PageSet_encode(pages) ==
  <<PageSize, Cardinality(DOMAIN pages)>> \o EncPages(pages, DOMAIN pages)

\* Object::encode_base (lines 58-62)
encode_base(o) == EncMap(o.xattr) \o EncBytes(o.omap_header) \o EncMap(o.omap)

\* BufferlistObject::encode (lines 110-115), PageSetObject::encode (142-148)
Object_encode(o) ==
  IF o.paged
  THEN Envelope(1, 1, <<o.data_len>> \o PageSet_encode(o.pages) \o encode_base(o))
  ELSE Envelope(1, 1, EncBytes(o.data) \o encode_base(o))

RECURSIVE EncObjects(_, _)
\* lines 203-208: each key of object_map, in its order, and its object
EncObjects(m, ks) ==
  IF ks = {} THEN <<>>
  ELSE LET k == MinOf(ks)
       IN  <<k>> \o Object_encode(m[k]) \o EncObjects(m, ks \ {k})

\* Collection::encode (lines 197-210)
Collection_encode(c) ==
  Envelope(1, 1, EncMap(c.xattr) \o EncBool(c.use_page_set)
                 \o <<Cardinality(DOMAIN c.object_map)>>
                 \o EncObjects(c.object_map, DOMAIN c.object_map))

(***************************************************************************)
(* Decoding reads the stream buf from the offset off (words consumed) and  *)
(* yields [ok, v, off]; ok = FALSE is a thrown buffer::error.              *)
(***************************************************************************)
Thrown == [ok |-> FALSE, v |-> 0, off |-> 0]
Got(v, off) == [ok |-> TRUE, v |-> v, off |-> off]
\* A throw out of a decode that has filled the structure c so far.
Failed(c) == [ok |-> FALSE, v |-> c, off |-> 0]

\* The stream is read once, front to back: the result r of a read is computed
\* once and F continues from it; a throw ends the decode with fail.
Bind(r, F(_)) == CHOOSE out \in {F(x) : x \in {r}} : TRUE
ThenOr(r, fail, F(_)) == Bind(r, LAMBDA x : IF x.ok THEN F(x) ELSE fail)
Then(r, F(_)) == ThenOr(r, Thrown, F)

DecWord(buf, off) ==
  IF off + 1 > Len(buf) THEN Thrown ELSE Got(buf[off + 1], off + 1)

DecBool(buf, off) == Then(DecWord(buf, off), LAMBDA w : Got(w.v # 0, w.off))

DecBytes(buf, off) ==
  Then(DecWord(buf, off), LAMBDA n :
    IF n.off + n.v > Len(buf) THEN Thrown
    ELSE Got(SubSeq(buf, n.off + 1, n.off + n.v), n.off + n.v))

RECURSIVE DecPairs(_, _, _, _)
\* while (n--) { decode(k); decode(m[k]); }
DecPairs(buf, off, n, m) ==
  IF n = 0 THEN Got(m, off)
  ELSE Then(DecWord(buf, off), LAMBDA k :
       Then(DecBytes(buf, k.off), LAMBDA b :
         DecPairs(buf, b.off, n - 1, Put(m, k.v, b.v))))

DecMap(buf, off) ==
  Then(DecWord(buf, off), LAMBDA n : DecPairs(buf, n.off, n.v, EmptyMap))

\* DECODE_START(v, p): throws when v < struct_compat and when struct_len
\* exceeds what is left of the stream; yields where the structure ends.
DecodeStart(v, buf, off) ==
  Then(DecWord(buf, off), LAMBDA sv :
  Then(DecWord(buf, sv.off), LAMBDA sc :
  Then(DecWord(buf, sc.off), LAMBDA sl :
    IF v < sc.v THEN Thrown
    ELSE IF sl.v > Len(buf) - sl.off THEN Thrown
    ELSE Got(sl.off + sl.v, sl.off))))

\* DECODE_FINISH(p): throws when the decoder has read past the structure's
\* end; skips what it has not read of it.
DecodeFinish(v, off, end) == IF off > end THEN Thrown ELSE Got(v, end)

RECURSIVE DecPages(_, _, _, _, _)
DecPages(buf, off, n, psize, pages) ==
  IF n = 0 THEN Got(pages, off)
  ELSE Then(DecWord(buf, off), LAMBDA f :
         IF f.off + psize > Len(buf) THEN Thrown
         ELSE DecPages(buf, f.off + psize, n - 1, psize,
                       Put(pages, f.v, SubSeq(buf, f.off + 1, f.off + psize))))

\* PageSet::decode
PageSet_decode(buf, off) ==
  Then(DecWord(buf, off), LAMBDA ps :
  Then(DecWord(buf, ps.off), LAMBDA n :
    DecPages(buf, n.off, n.v, ps.v, EmptyMap)))

\* A decode_base that reads the omap header before the attributes.
decode_base_swapped(buf, off) ==
  Then(DecBytes(buf, off), LAMBDA h :
  Then(DecMap(buf, h.off), LAMBDA x :
  Then(DecMap(buf, x.off), LAMBDA m :
    Got(<<x.v, h.v, m.v>>, m.off))))

\* Object::decode_base (lines 63-67): xattr, omap_header, omap; v is
\* <<xattr, omap_header, omap>>.
decode_base(buf, off) ==
  Then(DecMap(buf, off), LAMBDA x :
  Then(DecBytes(buf, x.off), LAMBDA h :
  Then(DecMap(buf, h.off), LAMBDA m :
    Got(<<x.v, h.v, m.v>>, m.off))))

\* A decoder that accepts the encodings of its successor.
DecoderVersionNext == 1 + 1

\* The struct_v handed to DECODE_START at lines 117, 150 and 212.
DecoderVersion == 1

EmptyObject(paged) ==
  [paged |-> paged, data |-> <<>>, data_len |-> 0, pages |-> EmptyMap,
   xattr |-> EmptyMap, omap_header |-> <<>>, omap |-> EmptyMap]

\* BufferlistObject::decode (lines 116-121)
BufferlistObject_decode(buf, off) ==
  Then(DecodeStart(DecoderVersion, buf, off), LAMBDA st :
  Then(DecBytes(buf, st.off), LAMBDA d :
  Then(decode_base(buf, d.off), LAMBDA b :
    DecodeFinish([EmptyObject(FALSE) EXCEPT
                    !.data = d.v, !.xattr = b.v[1],
                    !.omap_header = b.v[2], !.omap = b.v[3]],
                 b.off, st.v))))

\* PageSetObject::decode (lines 149-155)
PageSetObject_decode(buf, off) ==
  Then(DecodeStart(DecoderVersion, buf, off), LAMBDA st :
  Then(DecWord(buf, st.off), LAMBDA l :
  Then(PageSet_decode(buf, l.off), LAMBDA d :
  Then(decode_base(buf, d.off), LAMBDA b :
    DecodeFinish([EmptyObject(TRUE) EXCEPT
                    !.data_len = l.v, !.pages = d.v, !.xattr = b.v[1],
                    !.omap_header = b.v[2], !.omap = b.v[3]],
                 b.off, st.v)))))

\* create_object() under a flag, then o->decode(p) (lines 220-221)
Object_decode(flag, buf, off) ==
  IF flag THEN PageSetObject_decode(buf, off)
  ELSE BufferlistObject_decode(buf, off)

\* The use_page_set that create_object() reads at line 220: line 214 has
\* overwritten the configured flag with the decoded one.
DecodeFlag(configured, decoded) == decoded

RECURSIVE DecObjects(_, _, _, _, _)
\* lines 217-224; c is the Collection so far, kept when an object throws.
DecObjects(buf, off, s, flag, c) ==
  IF s = 0 THEN Got(c, off)
  ELSE ThenOr(DecWord(buf, off), Failed(c), LAMBDA k :
       ThenOr(Object_decode(flag, buf, k.off), Failed(c), LAMBDA o :
         DecObjects(buf, o.off, s - 1, flag,
                    [c EXCEPT !.object_map = Insert(@, k.v, o.v),
                              !.object_hash = Insert(@, k.v, o.v)])))

\* Collection::Collection (lines 239-241)
NewCollection(flag) ==
  [xattr |-> EmptyMap, use_page_set |-> flag, object_map |-> EmptyMap,
   object_hash |-> EmptyMap]

\* The objects of the stream, into the Collection c whose xattr and
\* use_page_set are decoded (lines 215-225).
Collection_decode_objects(configured, c, buf, off, end) ==
  ThenOr(DecWord(buf, off), Failed(c), LAMBDA s :
  Bind(DecObjects(buf, s.off, s.v, DecodeFlag(configured, c.use_page_set), c),
       LAMBDA os :
    IF ~os.ok THEN os
    ELSE IF os.off > end THEN Failed(os.v)
    ELSE Got(os.v, end)))

\* Collection::decode (lines 211-226) into the Collection c.
Collection_decode(c, buf) ==
  ThenOr(DecodeStart(DecoderVersion, buf, 0), Failed(c), LAMBDA st :
  ThenOr(DecMap(buf, st.off), Failed(c), LAMBDA x :
  ThenOr(DecBool(buf, x.off), Failed([c EXCEPT !.xattr = x.v]), LAMBDA f :
    Collection_decode_objects(c.use_page_set,
                              [c EXCEPT !.xattr = x.v, !.use_page_set = f.v],
                              buf, f.off, st.v))))

(***************************************************************************)
(* Encoding a Collection, damaging the stream or not, and decoding it into *)
(* a newly constructed Collection.                                         *)
(***************************************************************************)
CKeys == 1..MaxCKey
Datas == {<<>>, <<1, 2>>}
\* <<xattr, omap_header, omap>>
Bases == {<<EmptyMap, <<>>, EmptyMap>>,
          <<1 :> <<3>>, <<>>, EmptyMap>>,
          <<1 :> <<3>>, <<4>>, (1 :> <<5>>) @@ (2 :> <<>>)>>}
FullPage == [i \in 1..PageSize |-> 1]

SrcObjects(paged) ==
  IF paged
  THEN {[EmptyObject(TRUE) EXCEPT !.data_len = d[1], !.pages = d[2],
                                  !.xattr = b[1], !.omap_header = b[2],
                                  !.omap = b[3]] :
          d \in {<<0, EmptyMap>>, <<PageSize, 0 :> FullPage>>}, b \in Bases}
  ELSE {[EmptyObject(FALSE) EXCEPT !.data = d, !.xattr = b[1],
                                   !.omap_header = b[2], !.omap = b[3]] :
          d \in Datas, b \in Bases}

\* The Collections whose encoding is decoded: both indices hold the same.
SrcCollections ==
  {[xattr |-> x, use_page_set |-> f, object_map |-> m, object_hash |-> m] :
     x \in {EmptyMap, 2 :> <<7>>}, f \in BOOLEAN,
     m \in UNION {[ks -> SrcObjects(g)] : ks \in SUBSET CKeys, g \in BOOLEAN}}

NoOutcome == [ok |-> FALSE, v |-> NewCollection(FALSE), off |-> 0]

InitCodec ==
  /\ cstage = "src"
  /\ csrc \in {c \in SrcCollections :
                 \A k \in DOMAIN c.object_map :
                   c.object_map[k].paged = c.use_page_set}
  /\ cstream = <<>>
  /\ ctamper = "none"
  /\ cdst = NoOutcome

codec_encode ==
  /\ cstage = "src"
  /\ cstage' = "encoded"
  /\ cstream' = Collection_encode(csrc)
  /\ UNCHANGED <<csrc, ctamper, cdst>>
  /\ UNCHANGED notCodec

\* The stream is cut short: only its first n words arrive.
codec_truncate(n) ==
  /\ cstage = "encoded" /\ ctamper = "none" /\ n < Len(cstream)
  /\ cstream' = SubSeq(cstream, 1, n)
  /\ ctamper' = "truncated"
  /\ UNCHANGED <<cstage, csrc, cdst>>
  /\ UNCHANGED notCodec

\* Where the words of the Collection's encoding are.
CountAt(c) == 3 + Len(EncMap(c.xattr)) + 2
FirstObjectAt(c) == CountAt(c) + 1

\* The stream is one of an encoder whose struct_compat is past the
\* decoder's version: the Collection's (word 2) or its first Object's.
codec_raise_compat(inner, compat) ==
  /\ cstage = "encoded" /\ ctamper = "none"
  /\ inner => csrc.object_map # EmptyMap
  /\ LET at == IF inner THEN FirstObjectAt(csrc) + 2 ELSE 2
     IN  cstream' = [cstream EXCEPT ![at] = compat]
  /\ ctamper' = "compat"
  /\ UNCHANGED <<cstage, csrc, cdst>>
  /\ UNCHANGED notCodec

\* The stream declares one object more than it holds; what follows the
\* Collection's structure in the stream is nothing, or other data.
codec_raise_count(trail) ==
  /\ cstage = "encoded" /\ ctamper = "none"
  /\ cstream' = [cstream EXCEPT ![CountAt(csrc)] = @ + 1] \o trail
  /\ ctamper' = "count"
  /\ UNCHANGED <<cstage, csrc, cdst>>
  /\ UNCHANGED notCodec

\* Collection c(cct); c.decode(p): flag is cct->_conf->memstore_page_set.
codec_decode(flag) ==
  /\ cstage = "encoded"
  /\ cstage' = "decoded"
  /\ cdst' = Collection_decode(NewCollection(flag), cstream)
  /\ UNCHANGED <<csrc, cstream, ctamper>>
  /\ UNCHANGED notCodec

Trails(c) == {<<>>, <<1>> \o Object_encode(EmptyObject(c.use_page_set))}

NextCodec ==
  \/ codec_encode
  \/ \E n \in 0..(Len(cstream) - 1) : codec_truncate(n)
  \/ \E inner \in BOOLEAN, compat \in 2..MaxCompat :
       codec_raise_compat(inner, compat)
  \/ \E trail \in Trails(csrc) : codec_raise_count(trail)
  \/ \E flag \in BOOLEAN : codec_decode(flag)

(***************************************************************************)
(* MemStore::queue_transactions (declared at lines 464-467, body in        *)
(* MemStore.cc): apply_lock (line 294, "serialize all updates") is taken   *)
(* once for the batch, each operation of the batch is handed in order to   *)
(* _do_transaction, and the lock is released.  The sequencer is recorded   *)
(* and not otherwise used.                                                 *)
(***************************************************************************)
Sequencers == {1, 2}
TxIdle == [pc |-> "idle", batch |-> 0, osr |-> 0, i |-> 0, n |-> 0]

queue_transactions(t, osr, n) ==
  /\ tx[t].pc = "idle" /\ nbatch < MaxBatches
  /\ nbatch' = nbatch + 1
  /\ tx' = [tx EXCEPT ![t] = [pc |-> "wait", batch |-> nbatch + 1, osr |-> osr,
                              i |-> 1, n |-> n]]
  /\ UNCHANGED <<apply_lock, applied>>
  /\ UNCHANGED notTxn

\* A queue_transactions that does not wait for the lock.
CanApplyAlways(t) == TRUE

\* Mutex::Locker l(apply_lock) can be constructed: the lock is free.
CanApply(t) == apply_lock = 0

apply_lock_acquire(t) ==
  /\ tx[t].pc = "wait" /\ CanApply(t)
  /\ apply_lock' = t
  /\ tx' = [tx EXCEPT ![t].pc = "apply"]
  /\ UNCHANGED <<applied, nbatch>>
  /\ UNCHANGED notTxn

\* _do_transaction: the next primitive operation of the batch is applied.
do_transaction_op(t) ==
  /\ tx[t].pc = "apply" /\ tx[t].i <= tx[t].n
  /\ applied' = Append(applied, <<tx[t].batch, tx[t].i>>)
  /\ tx' = [tx EXCEPT ![t].i = @ + 1]
  /\ UNCHANGED <<apply_lock, nbatch>>
  /\ UNCHANGED notTxn

\* ~Mutex::Locker at the return of queue_transactions
apply_lock_release(t) ==
  /\ tx[t].pc = "apply" /\ tx[t].i > tx[t].n
  /\ apply_lock' = IF apply_lock = t THEN 0 ELSE apply_lock
  /\ tx' = [tx EXCEPT ![t] = TxIdle]
  /\ UNCHANGED <<applied, nbatch>>
  /\ UNCHANGED notTxn

InitTxn ==
  /\ apply_lock = 0
  /\ tx = [t \in Threads |-> TxIdle]
  /\ applied = <<>>
  /\ nbatch = 0

NextTxn ==
  \/ \E t \in Threads, osr \in Sequencers, n \in 1..MaxOps :
       queue_transactions(t, osr, n)
  \/ \E t \in Threads : apply_lock_acquire(t)
  \/ \E t \in Threads : do_transaction_op(t)
  \/ \E t \in Threads : apply_lock_release(t)

(***************************************************************************)
(* The Sequencer (ObjectStore.h, not among the sources): the caller's      *)
(* ordering domain.  A batch is submitted on a sequencer; the sequencer    *)
(* hands its batches to queue_transactions in the order of submission, the *)
(* next one when the call for the one before has returned (the call is     *)
(* synchronous).  Batches on different sequencers are called concurrently. *)
(***************************************************************************)
\* A sequencer that calls queue_transactions for a batch while the call for
\* its batch before is still under way.
SequencerFreeAlways(osr) == TRUE

\* No call of queue_transactions for a batch of this sequencer is under way.
SequencerFree(osr) == \A t \in Threads : tx[t].pc = "idle" \/ tx[t].osr # osr

sequencer_submit(osr, n) ==
  /\ nbatch < MaxBatches
  /\ nbatch' = nbatch + 1
  /\ pending' = [pending EXCEPT ![osr] = Append(@, [batch |-> nbatch + 1, n |-> n])]
  /\ osr_of' = Append(osr_of, osr)
  /\ UNCHANGED <<apply_lock, tx, applied>>
  /\ UNCHANGED <<collVars, omapVars, codecVars, storeVars, listVars, payVars, refVars, lockVars, walkVars>>

\* A thread of the caller enters queue_transactions(osr, tls, ...) with the
\* sequencer's oldest batch.
sequencer_call(t, osr) ==
  /\ tx[t].pc = "idle" /\ pending[osr] # <<>> /\ SequencerFree(osr)
  /\ tx' = [tx EXCEPT ![t] = [pc |-> "wait", batch |-> Head(pending[osr]).batch,
                              osr |-> osr, i |-> 1,
                              n |-> Head(pending[osr]).n]]
  /\ pending' = [pending EXCEPT ![osr] = Tail(@)]
  /\ UNCHANGED <<apply_lock, applied, nbatch, osr_of>>
  /\ UNCHANGED <<collVars, omapVars, codecVars, storeVars, listVars, payVars, refVars, lockVars, walkVars>>

InitSeq ==
  /\ pending = [osr \in Sequencers |-> <<>>]
  /\ osr_of = <<>>

NextSeq ==
  \/ \E osr \in Sequencers, n \in 1..MaxOps : sequencer_submit(osr, n)
  \/ \E t \in Threads, osr \in Sequencers : sequencer_call(t, osr)
  \/ \E t \in Threads : apply_lock_acquire(t)
  \/ \E t \in Threads : do_transaction_op(t)
  \/ \E t \in Threads : apply_lock_release(t)

(***************************************************************************)
(* MemStore::_do_transaction and the handlers it dispatches to (declared   *)
(* at lines 302-332, bodies in MemStore.cc).  Each handler returns 0 or a  *)
(* negative errno and, failing, changes nothing; the engine applies the    *)
(* operations of the batch in order, goes on after a failure, and is Idle  *)
(* again after the last operation.                                         *)
(***************************************************************************)
CollIds == {1, 2}
ENOENT == 2
EEXIST == 17
ENOTEMPTY == 39

OpKinds == {"touch", "remove", "create_collection", "destroy_collection"}
Ops == [kind : OpKinds, cid : CollIds, oid : Keys]
NoOp == [kind |-> "none", cid |-> 0, oid |-> 0]

\* The status the handler of op returns on the registry m.
HandlerStatus(m, op) ==
  CASE op.kind = "touch" ->
         IF op.cid \in DOMAIN m THEN 0 ELSE 0 - ENOENT
    [] op.kind = "remove" ->
         IF op.cid \in DOMAIN m /\ op.oid \in m[op.cid] THEN 0 ELSE 0 - ENOENT
    [] op.kind = "create_collection" ->
         IF op.cid \in DOMAIN m THEN 0 - EEXIST ELSE 0
    [] op.kind = "destroy_collection" ->
         IF op.cid \notin DOMAIN m THEN 0 - ENOENT
         ELSE IF m[op.cid] # {} THEN 0 - ENOTEMPTY
         ELSE 0

\* The registry after the handler of op has succeeded on m.
HandlerEffect(m, op) ==
  CASE op.kind = "touch" -> [m EXCEPT ![op.cid] = @ \cup {op.oid}]
    [] op.kind = "remove" -> [m EXCEPT ![op.cid] = @ \ {op.oid}]
    [] op.kind = "create_collection" -> Put(m, op.cid, {})
    [] op.kind = "destroy_collection" -> Erase(m, op.cid)

\* An engine that undoes the batch when one of its operations fails.
AfterFailureRollback(m, start) == start

\* The registry after a handler has failed on m, in a batch begun on start.
AfterFailure(m, start) == m

EngIdle == [pc |-> "idle", left |-> 0, op |-> NoOp, r |-> 0, nfail |-> 0,
            start |-> EmptyMap]

\* Idle -> Applying: a batch of n operations is taken up.
engine_begin(n) ==
  /\ eng.pc = "idle"
  /\ eng' = [EngIdle EXCEPT !.pc = "applying", !.left = n, !.start = coll_map]
  /\ UNCHANGED coll_map
  /\ UNCHANGED <<collVars, omapVars, codecVars, txnVars, seqVars, listVars, payVars, refVars, lockVars, walkVars>>

\* The next operation of the batch is dispatched to its handler.
engine_apply(op) ==
  /\ eng.pc = "applying" /\ eng.left > 0
  /\ LET r == HandlerStatus(coll_map, op)
     IN  /\ coll_map' = IF r = 0 THEN HandlerEffect(coll_map, op)
                        ELSE AfterFailure(coll_map, eng.start)
         /\ eng' = [eng EXCEPT !.left = @ - 1, !.op = op, !.r = r,
                               !.nfail = IF r = 0 THEN @ ELSE @ + 1]
  /\ UNCHANGED <<collVars, omapVars, codecVars, txnVars, seqVars, listVars, payVars, refVars, lockVars, walkVars>>

\* Applying -> Idle, after the last operation.
engine_finish ==
  /\ eng.pc = "applying" /\ eng.left = 0
  /\ eng' = [eng EXCEPT !.pc = "idle"]
  /\ UNCHANGED coll_map
  /\ UNCHANGED <<collVars, omapVars, codecVars, txnVars, seqVars, listVars, payVars, refVars, lockVars, walkVars>>

InitStore ==
  /\ coll_map = EmptyMap
  /\ eng = EngIdle

NextStore ==
  \/ \E n \in 1..MaxOps : engine_begin(n)
  \/ \E op \in Ops : engine_apply(op)
  \/ engine_finish

(***************************************************************************)
(* MemStore::collection_list (declared at lines 412-414, body in           *)
(* MemStore.cc) over object_map, which is ordered by                       *)
(* ghobject_t::BitwiseComparator (line 162): by the bits of the hash read  *)
(* from the least significant one, then by the name.  A ghobject_t is its  *)
(* hash and its name; the empty ghobject_t is before every object's and    *)
(* ghobject_t::get_max() after.                                            *)
(***************************************************************************)
Hashes == 0..(2 ^ HashBits - 1)
Names == 1..MaxName
GhEmpty == [kind |-> "empty", hash |-> 0, name |-> 0]
GhMax == [kind |-> "max", hash |-> 0, name |-> 0]
GhObject(h, n) == [kind |-> "object", hash |-> h, name |-> n]

RECURSIVE RevBits(_, _)
\* The n low bits of h, in the reverse order.
RevBits(h, n) ==
  IF n = 0 THEN 0 ELSE (h % 2) * 2 ^ (n - 1) + RevBits(h \div 2, n - 1)

\* A comparator by the hash as a number.
HashKeyNumeric(h) == h

\* What the comparator compares of a hash: its bits reversed.
HashKey(h) == RevBits(h, HashBits)

\* cmp_bitwise(a, b) < 0
GhLess(a, b) ==
  CASE a.kind = "max" -> FALSE
    [] b.kind = "max" -> TRUE
    [] b.kind = "empty" -> FALSE
    [] a.kind = "empty" -> TRUE
    [] OTHER -> \/ HashKey(a.hash) < HashKey(b.hash)
                \/ a.hash = b.hash /\ a.name < b.name

\* object_map.lower_bound(start): the first key not before start.
GhLowerBound(keys, start) ==
  LET from == {k \in keys : ~GhLess(k, start)}
  IN  IF from = {} THEN GhMax
      ELSE CHOOSE k \in from : \A j \in from : ~GhLess(j, k)

\* No end cursor bounds the listing: end is empty.
BeforeEnd(k, end) == end.kind = "empty" \/ GhLess(k, end)

RECURSIVE ListFrom(_, _, _, _, _)
\* The loop of collection_list from the position p: at most max keys that
\* are before end are appended to ls; <<ls, next>>.
ListFrom(keys, p, end, max, ls) ==
  IF p = GhMax \/ Len(ls) >= max \/ ~BeforeEnd(p, end) THEN <<ls, p>>
  ELSE Bind([rest |-> keys \ {p}, ls |-> Append(ls, p)],
            LAMBDA x : Bind(GhLowerBound(x.rest, p),
                            LAMBDA q : ListFrom(x.rest, q, end, max, x.ls)))

collection_list(keys, start, end, max) ==
  Bind(GhLowerBound(keys, start),
       LAMBDA p : ListFrom(keys, p, end, max, <<>>))

\* Before the listing an object is created in the Collection.
list_touch(k) ==
  /\ lpc = "filling"
  /\ k \notin lkeys
  /\ Cardinality(lkeys) < MaxListObjs
  /\ lkeys' = lkeys \cup {k}
  /\ UNCHANGED <<lcur, lout, lpc>>
  /\ UNCHANGED <<collVars, omapVars, codecVars, txnVars, seqVars, storeVars, payVars, refVars, lockVars, walkVars>>

\* The caller begins to list, from the empty cursor; nothing changes the
\* Collection from here on.
list_begin ==
  /\ lpc = "filling"
  /\ lpc' = "listing"
  /\ lcur' = GhEmpty
  /\ lout' = <<>>
  /\ UNCHANGED lkeys
  /\ UNCHANGED <<collVars, omapVars, codecVars, txnVars, seqVars, storeVars, payVars, refVars, lockVars, walkVars>>

\* One call of the caller's loop: from the cursor the call before returned
\* to the empty end, at most max identifiers.
list_call(max) ==
  /\ lpc = "listing"
  /\ LET r == collection_list(lkeys, lcur, GhEmpty, max)
     IN  /\ lout' = lout \o r[1]
         /\ lcur' = r[2]
         /\ lpc' = IF r[2] = GhMax THEN "done" ELSE "listing"
  /\ UNCHANGED lkeys
  /\ UNCHANGED <<collVars, omapVars, codecVars, txnVars, seqVars, storeVars, payVars, refVars, lockVars, walkVars>>

\* No listing is under way.
ListAtRest ==
  /\ lkeys = {}
  /\ lcur = GhEmpty
  /\ lout = <<>>
  /\ lpc = "done"

\* An empty Collection, to be filled and then listed.
InitList ==
  /\ lkeys = {}
  /\ lcur = GhEmpty
  /\ lout = <<>>
  /\ lpc = "filling"

NextList ==
  \/ \E h \in Hashes, n \in Names : list_touch(GhObject(h, n))
  \/ list_begin
  \/ \E max \in 1..MaxList : list_call(max)

(***************************************************************************)
(* The payload stores: BufferlistObject (lines 98-122), one buffer, and    *)
(* PageSetObject (lines 124-156), pages of a fixed size allocated when     *)
(* first written.  read, write, clone and truncate are declared at lines   *)
(* 104-108 and 136-140; their bodies are in MemStore.cc and PageSet.h.     *)
(* A page may be held by both objects after a clone; an object writes only *)
(* to a page that it alone holds.                                          *)
(***************************************************************************)
page_size == 2
MaxPages == 2
MaxByte == 1
MaxData == MaxPages * page_size
PageIdx == 0..(MaxPages - 1)
PayObjs == {1, 2}
Pids == 1..(2 * MaxPages)
PayBytes == 1..MaxByte
ZeroPage == [i \in 1..page_size |-> 0]
Zeros(n) == [i \in 1..n |-> 0]
MaxOf(a, b) == IF a >= b THEN a ELSE b

\* PageSetObject(page_size) : data(page_size), data_len(0); a new
\* BufferlistObject has an empty bufferlist.
NewPayload(paged) ==
  [paged |-> paged, data |-> <<>>, data_len |-> 0,
   pages |-> [i \in PageIdx |-> 0]]

\* get_size(): data.length() or data_len.
get_size(o) == IF o.paged THEN o.data_len ELSE Len(o.data)

\* The number of places that hold the page.
RefCount(objs, pid) ==
  Cardinality({x \in PayObjs \X PageIdx : objs[x[1]].pages[x[2]] = pid})

\* The first page that no object holds.
AllocPid(objs) ==
  MinOf({p \in Pids : RefCount(objs, p) = 0})

\* The places that can hold a page, in a fixed order.
PlaceOf(n) == <<((n - 1) \div MaxPages) + 1, (n - 1) % MaxPages>>

\* The pages the places hold, in the order of the places.
Held(objs) ==
  [n \in 1..(2 * MaxPages) |-> objs[PlaceOf(n)[1]].pages[PlaceOf(n)[2]]]

\* Which page is which does not matter: a page held is numbered by the
\* first place that holds it, counting the pages held up to that place.
PageNumbers(held) ==
  [p \in Pids |->
     IF \A n \in DOMAIN held : held[n] # p THEN 0
     ELSE Cardinality(
            {held[m] : m \in 1..MinOf({n \in DOMAIN held : held[n] = p})}
              \ {0})]

\* The operation is over: the pages no object holds are freed and the
\* pages held are numbered by PageNumbers.
FreePages(st) ==
  Bind(st, LAMBDA t :
    Bind(PageNumbers(Held(t.objs)), LAMBDA num :
      [objs |-> [o \in PayObjs |->
                   [paged |-> t.objs[o].paged,
                    data |-> t.objs[o].data,
                    data_len |-> t.objs[o].data_len,
                    pages |-> [i \in PageIdx |->
                                 IF t.objs[o].pages[i] = 0 THEN 0
                                 ELSE num[t.objs[o].pages[i]]]]],
       heap |-> [p \in Pids |->
                   IF \E q \in Pids : num[q] = p
                   THEN t.heap[CHOOSE q \in Pids : num[q] = p]
                   ELSE <<>>],
       cow |-> t.cow]))

\* The page is written where it is although another object holds it too.
OwnPageInPlace(st, o, i) ==
  LET pid == st.objs[o].pages[i]
  IN  IF pid = 0
      THEN LET p == AllocPid(st.objs)
           IN  [st EXCEPT !.objs[o].pages[i] = p, !.heap[p] = ZeroPage]
      ELSE [st EXCEPT !.cow = @ \/ RefCount(st.objs, pid) > 1]

\* Before object o writes to its page i: a page never written is allocated,
\* of zeros; a page that another object holds too is copied first.
OwnPage(st, o, i) ==
  LET pid == st.objs[o].pages[i]
  IN  IF pid = 0
      THEN LET p == AllocPid(st.objs)
           IN  [st EXCEPT !.objs[o].pages[i] = p, !.heap[p] = ZeroPage]
      ELSE IF RefCount(st.objs, pid) > 1
      THEN LET p == AllocPid(st.objs)
           IN  [st EXCEPT !.objs[o].pages[i] = p, !.heap[p] = st.heap[pid],
                          !.cow = TRUE]
      ELSE st

\* One byte of a page of object o is set.
SetByte(st, o, pos, b) ==
  Bind(OwnPage(st, o, pos \div page_size),
       LAMBDA t : [t EXCEPT
         !.heap[t.objs[o].pages[pos \div page_size]][(pos % page_size) + 1] = b])

RECURSIVE SetBytes(_, _, _, _)
\* The bytes are set from pos on, page by page.
SetBytes(st, o, pos, bytes) ==
  IF bytes = <<>> THEN st
  ELSE Bind(SetByte(st, o, pos, Head(bytes)),
            LAMBDA t : SetBytes(t, o, pos + 1, Tail(bytes)))

\* PageSetObject::read: len bytes; a byte at or after data_len, or of a
\* page never written, reads as zero.
PageSet_read(o, heap, off, len) ==
  [k \in 1..len |->
     LET pos == off + k - 1
     IN  IF pos >= o.data_len \/ pos >= MaxData THEN 0
         ELSE IF o.pages[pos \div page_size] = 0 THEN 0
         ELSE heap[o.pages[pos \div page_size]][(pos % page_size) + 1]]

\* BufferlistObject::read: len bytes; a byte after the buffer is zero.
Bufferlist_read(o, off, len) ==
  [k \in 1..len |-> IF off + k <= Len(o.data) THEN o.data[off + k] ELSE 0]

\* read(offset, len) of either payload.
Read(objs, heap, o, off, len) ==
  IF objs[o].paged THEN PageSet_read(objs[o], heap, off, len)
  ELSE Bufferlist_read(objs[o], off, len)

\* BufferlistObject::write: the buffer with the bytes at off, zeros in a
\* gap before them.
Bufferlist_write(data, off, bytes) ==
  [k \in 1..MaxOf(Len(data), off + Len(bytes)) |->
     IF k > off /\ k <= off + Len(bytes) THEN bytes[k - off]
     ELSE IF k <= Len(data) THEN data[k] ELSE 0]

\* write(offset, bl) of either payload; the size grows to offset + length.
Write(st, o, off, bytes) ==
  IF st.objs[o].paged
  THEN Bind(SetBytes(st, o, off, bytes),
            LAMBDA t : [t EXCEPT !.objs[o].data_len =
                                    MaxOf(@, off + Len(bytes))])
  ELSE [st EXCEPT !.objs[o].data = Bufferlist_write(@, off, bytes)]

\* The bytes of the last page after the new size are left as they were.
ZeroTailSkipped(st, o, size) == st

\* PageSetObject::truncate, the rest of the last page: when the new size
\* is inside a page that was written, its bytes from the size on are zeroed.
ZeroTail(st, o, size) ==
  IF size % page_size = 0 \/ size >= MaxData THEN st
  ELSE IF st.objs[o].pages[size \div page_size] = 0 THEN st
  ELSE SetBytes(st, o, size, Zeros(page_size - (size % page_size)))

\* truncate(size) of either payload: the pages after the size are freed
\* and the size is set; a buffer is cut or extended with zeros.
Truncate(st, o, size) ==
  IF st.objs[o].paged
  THEN Bind([st EXCEPT
               !.objs[o].pages = [i \in PageIdx |->
                                    IF i * page_size >= size THEN 0 ELSE @[i]],
               !.objs[o].data_len = size],
            LAMBDA t : ZeroTail(t, o, size))
  ELSE [st EXCEPT !.objs[o].data =
          [k \in 1..size |-> IF k <= Len(@) THEN @[k] ELSE 0]]

RECURSIVE SharePages(_, _, _, _, _, _, _)
\* From page i on: a page of dst that the cloned range covers whole, and
\* whose bytes come from one whole page of src, becomes that page of src.
SharePages(st, dst, src, so, len, do, i) ==
  IF i >= MaxPages THEN st
  ELSE Bind(
    IF /\ do <= i * page_size
       /\ (i + 1) * page_size <= do + len
       /\ (so - do) % page_size = 0
       /\ (i * page_size + so - do) \div page_size \in PageIdx
       /\ (i + 1) * page_size + so - do <= st.objs[src].data_len
       /\ st.objs[src].pages[(i * page_size + so - do) \div page_size] # 0
    THEN [st EXCEPT !.objs[dst].pages[i] =
            st.objs[src].pages[(i * page_size + so - do) \div page_size]]
    ELSE st,
    LAMBDA t : SharePages(t, dst, src, so, len, do, i + 1))

\* clone(src, srcoff, len, dstoff) of either payload: the bytes read from
\* the source are written to the destination; a paged destination then
\* holds whole pages of the source instead of its copies of them.
Clone(st, dst, src, so, len, do) ==
  Bind(Write(st, dst, do, Read(st.objs, st.heap, src, so, len)),
       LAMBDA t : IF t.objs[dst].paged
                  THEN SharePages(t, dst, src, so, len, do, 0)
                  ELSE t)

NoPayOp == [kind |-> "none", o |-> 0, cow |-> FALSE, hist |-> "no"]

\* The operation has been applied.
PayDone(st, op) ==
  /\ \E t \in {FreePages(st)} :
       /\ pay' = t.objs
       /\ pheap' = t.heap
       /\ plast' = [op EXCEPT !.cow = t.cow]
  /\ UNCHANGED <<collVars, omapVars, codecVars, txnVars, seqVars, storeVars,
                 listVars, refVars, lockVars, walkVars>>

PayState == [objs |-> pay, heap |-> pheap, cow |-> FALSE]

\* write of len bytes of value b at off to object o
payload_write(o, off, len, b) ==
  /\ off + len <= MaxData
  /\ PayDone(Write(PayState, o, off, [k \in 1..len |-> b]),
             [NoPayOp EXCEPT !.kind = "write", !.o = o])

\* What a truncate of object o to size is after the operation before it.
TruncateHist(o, size) ==
  IF /\ size < get_size(pay[o])
     /\ size % page_size # 0
     /\ \E k \in 1..(page_size - (size % page_size)) :
          Read(pay, pheap, o, size, k)[k] # 0
  THEN "cut"
  ELSE IF /\ size > get_size(pay[o])
          /\ plast.kind = "truncate" /\ plast.o = o /\ plast.hist = "cut"
  THEN "regrown"
  ELSE "no"

\* truncate of object o to size
payload_truncate(o, size) ==
  /\ size <= MaxData
  /\ PayDone(Truncate(PayState, o, size),
             [NoPayOp EXCEPT !.kind = "truncate", !.o = o,
                             !.hist = TruncateHist(o, size)])

\* clone of [so, so + len) of object 1 to [do, do + len) of object 2
payload_clone(so, len, do) ==
  /\ so + len <= MaxData
  /\ do + len <= MaxData
  /\ PayDone(Clone(PayState, 2, 1, so, len, do),
             [NoPayOp EXCEPT !.kind = "clone", !.o = 2])

\* No payload has been written.
PayAtRest ==
  /\ pay = [o \in PayObjs |-> NewPayload(FALSE)]
  /\ pheap = [p \in Pids |-> <<>>]
  /\ plast = NoPayOp

\* Two new objects of a Collection, of the payload its use_page_set names.
InitPay ==
  /\ \E paged \in BOOLEAN : pay = [o \in PayObjs |-> NewPayload(paged)]
  /\ pheap = [p \in Pids |-> <<>>]
  /\ plast = NoPayOp

NextPay ==
  \/ \E o \in PayObjs, off \in 0..(MaxData - 1), len \in 1..page_size,
        b \in PayBytes : payload_write(o, off, len, b)
  \/ \E o \in PayObjs, size \in 0..MaxData : payload_truncate(o, size)
  \/ \E so \in 0..(MaxData - 1), len \in 1..MaxData, do \in 0..(MaxData - 1) :
        payload_clone(so, len, do)

(***************************************************************************)
(* Object::Ref is boost::intrusive_ptr<Object> (line 44): a copy of a      *)
(* reference calls get() (line 45) and the end of one calls put() (line    *)
(* 46) of RefCountedObject, which counts the references and destroys the   *)
(* object at the put() of the last one.  object_hash and object_map hold   *)
(* one reference each (lines 161-162); get_object returns a copy made      *)
(* under the lock (line 186).  The removal of an object is in MemStore.cc. *)
(***************************************************************************)
RefObjs == 1..MaxRefObjs
Freed == 0
NoObject == [made |-> FALSE, nref |-> 0, alive |-> FALSE, data |-> Freed,
             born |-> Freed]
NoRead == [val |-> Freed, indexed |-> FALSE, done |-> FALSE]
RefIdle == [pc |-> "idle", found |-> NullRef, ref |-> NullRef, ret |-> NoRead]

\* The reference is copied without a call of get().
AddRefNone(objs, id) == objs

\* intrusive_ptr_add_ref: o->get()
AddRef(objs, id) == [objs EXCEPT ![id].nref = @ + 1]

\* intrusive_ptr_release: o->put(); the put() of the last reference
\* destroys the object.
Release(objs, id) ==
  IF objs[id].nref = 1
  THEN [objs EXCEPT ![id].nref = 0, ![id].alive = FALSE, ![id].data = Freed]
  ELSE [objs EXCEPT ![id].nref = @ - 1]

RefOther == <<collVars, omapVars, codecVars, txnVars, seqVars, storeVars,
              listVars, payVars, lockVars, walkVars>>

\* RWLock::RLocker l(lock), line 182
ref_get_object_lock(t) ==
  /\ rth[t].pc = "idle" /\ rth[t].ref = NullRef
  /\ rlock.w = 0
  /\ rlock' = [rlock EXCEPT !.r = @ \cup {t}]
  /\ rth' = [rth EXCEPT ![t].pc = "go_locked"]
  /\ UNCHANGED <<rhash, rmap, robj>>
  /\ UNCHANGED RefOther

\* object_hash.find(oid), line 183
ref_get_object_find(t) ==
  /\ rth[t].pc = "go_locked"
  /\ rth' = [rth EXCEPT ![t].pc = "go_found", ![t].found = rhash]
  /\ UNCHANGED <<rhash, rmap, robj, rlock>>
  /\ UNCHANGED RefOther

\* return ObjectRef() or return o->second, lines 184-186: the reference
\* is copied for the caller.
ref_get_object_return(t) ==
  /\ rth[t].pc = "go_found"
  /\ rth' = [rth EXCEPT ![t].pc = "go_ret", ![t].ref = rth[t].found,
                        ![t].ret = NoRead]
  /\ robj' = IF rth[t].found = NullRef THEN robj
             ELSE AddRef(robj, rth[t].found)
  /\ UNCHANGED <<rhash, rmap, rlock>>
  /\ UNCHANGED RefOther

\* the end of the RLocker
ref_get_object_unlock(t) ==
  /\ rth[t].pc = "go_ret"
  /\ rlock' = [rlock EXCEPT !.r = @ \ {t}]
  /\ rth' = [rth EXCEPT ![t].pc = "idle", ![t].found = NullRef]
  /\ UNCHANGED <<rhash, rmap, robj>>
  /\ UNCHANGED RefOther

\* The caller reads the object through its reference.  An object that was
\* destroyed reads as anything.
ref_read(t) ==
  /\ rth[t].pc = "idle" /\ rth[t].ref # NullRef
  /\ \E v \in IF robj[rth[t].ref].alive THEN {robj[rth[t].ref].data}
               ELSE {Freed} \cup Vals :
       rth' = [rth EXCEPT ![t].ret = [val |-> v,
                                      indexed |-> rhash = rth[t].ref,
                                      done |-> TRUE]]
  /\ UNCHANGED <<rhash, rmap, robj, rlock>>
  /\ UNCHANGED RefOther

\* The end of the caller's reference.
ref_release(t) ==
  /\ rth[t].pc = "idle" /\ rth[t].ref # NullRef
  /\ robj' = Release(robj, rth[t].ref)
  /\ rth' = [rth EXCEPT ![t].ref = NullRef, ![t].ret = NoRead]
  /\ UNCHANGED <<rhash, rmap, rlock>>
  /\ UNCHANGED RefOther

\* get_or_create_object of an absent key, lines 189-195, under the
\* WLocker: the new object with the references of the two indices; the
\* reference returned is dropped by the caller at once.
ref_create(t, v) ==
  /\ rth[t].pc = "idle" /\ rth[t].ref = NullRef
  /\ rlock.w = 0 /\ rlock.r = {}
  /\ rhash = NullRef
  /\ \E id \in RefObjs :
       /\ ~robj[id].made
       /\ \A j \in RefObjs : j < id => robj[j].made
       /\ robj' = [robj EXCEPT ![id] = [made |-> TRUE, nref |-> 2,
                                         alive |-> TRUE, data |-> v,
                                         born |-> v]]
       /\ rhash' = id
       /\ rmap' = id
  /\ UNCHANGED <<rlock, rth>>
  /\ UNCHANGED RefOther

\* The removal of the object: RWLock::WLocker
ref_remove_lock(t) ==
  /\ rth[t].pc = "idle" /\ rth[t].ref = NullRef
  /\ rlock.w = 0 /\ rlock.r = {}
  /\ rhash # NullRef
  /\ rlock' = [rlock EXCEPT !.w = t]
  /\ rth' = [rth EXCEPT ![t].pc = "rm_locked"]
  /\ UNCHANGED <<rhash, rmap, robj>>
  /\ UNCHANGED RefOther

\* object_hash.erase(oid): the end of the reference of object_hash
ref_remove_hash(t) ==
  /\ rth[t].pc = "rm_locked"
  /\ robj' = Release(robj, rhash)
  /\ rhash' = NullRef
  /\ rth' = [rth EXCEPT ![t].pc = "rm_hash"]
  /\ UNCHANGED <<rmap, rlock>>
  /\ UNCHANGED RefOther

\* object_map.erase(oid): the end of the reference of object_map
ref_remove_map(t) ==
  /\ rth[t].pc = "rm_hash"
  /\ robj' = Release(robj, rmap)
  /\ rmap' = NullRef
  /\ rth' = [rth EXCEPT ![t].pc = "rm_map"]
  /\ UNCHANGED <<rhash, rlock>>
  /\ UNCHANGED RefOther

\* the end of the WLocker
ref_remove_unlock(t) ==
  /\ rth[t].pc = "rm_map"
  /\ rlock' = [rlock EXCEPT !.w = 0]
  /\ rth' = [rth EXCEPT ![t].pc = "idle"]
  /\ UNCHANGED <<rhash, rmap, robj>>
  /\ UNCHANGED RefOther

\* No object, no reference.
InitRef ==
  /\ rhash = NullRef
  /\ rmap = NullRef
  /\ robj = [id \in RefObjs |-> NoObject]
  /\ rlock = [w |-> 0, r |-> {}]
  /\ rth = [t \in Threads |-> RefIdle]

NextRef ==
  \E t \in Threads :
    \/ ref_get_object_lock(t)
    \/ ref_get_object_find(t)
    \/ ref_get_object_return(t)
    \/ ref_get_object_unlock(t)
    \/ ref_read(t)
    \/ ref_release(t)
    \/ \E v \in Vals : ref_create(t, v)
    \/ ref_remove_lock(t)
    \/ ref_remove_hash(t)
    \/ ref_remove_map(t)
    \/ ref_remove_unlock(t)

(***************************************************************************)
(* The locks a thread holds.  get_object (lines 181-187) and               *)
(* get_or_create_object (lines 189-195) hold Collection::lock from their   *)
(* first statement to their return; the operations of OmapIteratorImpl     *)
(* (lines 254-285) take omap_mutex only.  The handlers that work on an     *)
(* object under xattr_mutex, omap_mutex (lines 39-40) or                   *)
(* BufferlistObject::mutex (line 99) are in MemStore.cc: they look the     *)
(* object up first and lock it afterwards.                                 *)
(***************************************************************************)
ObjLocks == {"xattr_mutex", "omap_mutex", "mutex"}
LockOps == {"get_object", "get_or_create_object", "iterator", "handler"}
LockIdle == [pc |-> "idle", op |-> "none", want |-> "none"]

\* The lock is still held after the return.
IndexKept(l, t) == l

\* The end of the RLocker or WLocker l at the return, lines 187 and 195.
IndexReleased(l, t) ==
  [w |-> IF l.w = t THEN 0 ELSE l.w, r |-> l.r \ {t}]

HoldsIndex(t) == klock.w = t \/ t \in klock.r
HoldsObject(t) == \E n \in ObjLocks : olock[n] = t

LockOther == <<collVars, omapVars, codecVars, txnVars, seqVars, storeVars,
               listVars, payVars, refVars, walkVars>>

\* A thread calls get_object, get_or_create_object, an operation of an
\* omap iterator, or a handler that is to lock n of the object it looks up.
lock_call(t, op, n) ==
  /\ kth[t].pc = "idle"
  /\ op = "iterator" => n = "omap_mutex"
  /\ op \in {"get_object", "get_or_create_object"} => n = "none"
  /\ op = "handler" => n \in ObjLocks
  /\ kth' = [kth EXCEPT ![t] =
       [pc |-> IF op = "iterator" THEN "want_object" ELSE "want_index",
        op |-> op, want |-> n]]
  /\ UNCHANGED <<klock, olock>>
  /\ UNCHANGED LockOther

\* RWLock::RLocker l(lock), line 182 (also of a handler's lookup);
\* RWLock::WLocker l(lock), line 190
lock_index(t) ==
  /\ kth[t].pc = "want_index"
  /\ IF kth[t].op = "get_or_create_object"
     THEN /\ klock.w = 0 /\ klock.r = {}
          /\ klock' = [klock EXCEPT !.w = t]
     ELSE /\ klock.w = 0
          /\ klock' = [klock EXCEPT !.r = @ \cup {t}]
  /\ kth' = [kth EXCEPT ![t].pc = "in_index"]
  /\ UNCHANGED olock
  /\ UNCHANGED LockOther

\* The return of get_object or get_or_create_object; a handler goes on to
\* the object it has found.
lock_index_return(t) ==
  /\ kth[t].pc = "in_index"
  /\ klock' = IndexReleased(klock, t)
  /\ kth' = [kth EXCEPT ![t] = IF kth[t].op = "handler"
                                THEN [@ EXCEPT !.pc = "want_object"]
                                ELSE LockIdle]
  /\ UNCHANGED olock
  /\ UNCHANGED LockOther

\* std::lock_guard<std::mutex> of a mutex of the object
lock_object(t) ==
  /\ kth[t].pc = "want_object"
  /\ olock[kth[t].want] = 0
  /\ olock' = [olock EXCEPT ![kth[t].want] = t]
  /\ kth' = [kth EXCEPT ![t].pc = "in_object"]
  /\ UNCHANGED klock
  /\ UNCHANGED LockOther

\* The end of the guard.
unlock_object(t) ==
  /\ kth[t].pc = "in_object"
  /\ olock' = [olock EXCEPT ![kth[t].want] = 0]
  /\ kth' = [kth EXCEPT ![t] = LockIdle]
  /\ UNCHANGED klock
  /\ UNCHANGED LockOther

InitLock ==
  /\ klock = [w |-> 0, r |-> {}]
  /\ olock = [n \in ObjLocks |-> 0]
  /\ kth = [t \in Threads |-> LockIdle]

NextLock ==
  \E t \in Threads :
    \/ \E op \in LockOps, n \in ObjLocks \cup {"none"} : lock_call(t, op, n)
    \/ lock_index(t)
    \/ lock_index_return(t)
    \/ lock_object(t)
    \/ unlock_object(t)

(***************************************************************************)
(* A caller's loop over an OmapIteratorImpl (lines 246-289) while nothing  *)
(* updates the omap:                                                       *)
(*   for (it = new OmapIteratorImpl(c, o); it->valid(); it->next())        *)
(*     { it->key(); it->value(); }                                         *)
(* and the same again after seek_to_first(); status() at any time.  With   *)
(* no update under way the unnamed guards of the operations change         *)
(* nothing.                                                                *)
(***************************************************************************)
NoCall == [op |-> "none", val |-> 0]
WalkOther == <<collVars, omapVars, codecVars, txnVars, seqVars, storeVars,
               listVars, payVars, refVars, lockVars>>

\* lines 251-252: it(o->omap.begin())
walk_create ==
  /\ wpc = "start"
  /\ wit' = map_begin(womap)
  /\ wpc' = "test"
  /\ wseen' = <<>>
  /\ UNCHANGED <<womap, wret>>
  /\ UNCHANGED WalkOther

\* lines 254-258: it = o->omap.begin(); return 0; the walk begins again.
walk_seek_to_first ==
  /\ wpc = "done"
  /\ wit' = map_begin(womap)
  /\ wret' = [op |-> "seek_to_first", val |-> 0]
  /\ wpc' = "test"
  /\ wseen' = <<>>
  /\ UNCHANGED womap
  /\ UNCHANGED WalkOther

\* lines 269-272: return it != o->omap.end()
walk_valid ==
  /\ wpc = "test"
  /\ wret' = [op |-> "valid", val |-> (wit # OEnd)]
  /\ wpc' = IF wit # OEnd THEN "key" ELSE "done"
  /\ UNCHANGED <<womap, wit, wseen>>
  /\ UNCHANGED WalkOther

\* lines 278-281: return it->first
walk_key ==
  /\ wpc = "key"
  /\ wret' = [op |-> "key", val |-> wit]
  /\ wpc' = "value"
  /\ UNCHANGED <<womap, wit, wseen>>
  /\ UNCHANGED WalkOther

\* lines 282-285: return it->second
walk_value ==
  /\ wpc = "value"
  /\ wret' = [op |-> "value", val |-> womap[wit]]
  /\ wseen' = Append(wseen, <<wret.val, womap[wit]>>)
  /\ wpc' = "step"
  /\ UNCHANGED <<womap, wit>>
  /\ UNCHANGED WalkOther

\* lines 273-277: ++it; return 0
walk_next ==
  /\ wpc = "step"
  /\ wit' = map_next(womap, wit)
  /\ wret' = [op |-> "next", val |-> 0]
  /\ wpc' = "test"
  /\ UNCHANGED <<womap, wseen>>
  /\ UNCHANGED WalkOther

\* lines 286-288: return 0, between two operations of the loop
walk_status ==
  /\ wpc \in {"test", "step", "done"}
  /\ wret' = [op |-> "status", val |-> 0]
  /\ UNCHANGED <<womap, wit, wpc, wseen>>
  /\ UNCHANGED WalkOther

\* No walk.
WalkAtRest ==
  /\ womap = EmptyMap
  /\ wit = OEnd
  /\ wpc = "done"
  /\ wret = NoCall
  /\ wseen = <<>>

\* An omap of any content, and no iterator yet.
InitWalk ==
  /\ womap \in UNION {[ks -> Vals] : ks \in SUBSET OKeys}
  /\ wit = OEnd
  /\ wpc = "start"
  /\ wret = NoCall
  /\ wseen = <<>>

\* The operations of the loop.
WalkLoop ==
  \/ walk_create
  \/ walk_valid
  \/ walk_key
  \/ walk_value
  \/ walk_next

NextWalk ==
  \/ WalkLoop
  \/ walk_seek_to_first
  \/ walk_status

\* The added parts of the state, as constructed.
ExtAtRest ==
  /\ InitSeq /\ InitStore /\ ListAtRest /\ PayAtRest /\ InitRef /\ InitLock
  /\ WalkAtRest

\* A specification's own part of the state apart, the rest is as constructed
\* and is left alone.
CollAtRest ==
  /\ phase = "fresh"
  /\ use_page_set = FALSE
  /\ object_hash = EmptyMap
  /\ object_map = EmptyMap
  /\ lock = [w |-> 0, r |-> {}]
  /\ objects = <<>>
  /\ th = [t \in Threads |-> Idle]
  /\ dec = NoDecode
  /\ hist = [k \in Keys |-> [obj |-> NullRef, ctor |-> 0]]

\* An Object as constructed: an empty omap, no iterator yet.
InitOmap ==
  /\ omap = EmptyMap
  /\ omap_mutex = "free"
  /\ it = OEnd
  /\ it_dangling = FALSE
  /\ iter = [IterIdle EXCEPT !.pc = "none"]
  /\ mut = "idle"
  /\ seek = NoSeek

CodecAtRest ==
  /\ cstage = "src"
  /\ csrc = NewCollection(FALSE)
  /\ cstream = <<>>
  /\ ctamper = "none"
  /\ cdst = NoOutcome

NextOmap ==
  \/ OmapIteratorImpl
  \/ \E op \in IterOps, arg \in OKeys : iter_call(op, arg)
  \/ iter_guard_lock
  \/ iter_guard_unlock
  \/ iter_seek
  \/ iter_valid
  \/ iter_next
  \/ iter_key
  \/ iter_value
  \/ iter_return
  \/ mut_lock
  \/ \E k \in OKeys, v \in Vals : omap_setkeys(k, v)
  \/ \E k \in OKeys : omap_rmkeys(k)
  \/ mut_unlock

NextUsedBytes ==
  \/ NextIndex
  \/ \E t \in Threads : used_bytes_begin(t)
  \/ \E t \in Threads : used_bytes_step(t)
  \/ \E t \in Threads : used_bytes_return(t)
  \/ \E t \in Threads : used_bytes_done(t)

Init == InitColl /\ InitOmap /\ CodecAtRest /\ InitTxn /\ ExtAtRest
Next == NextIndex
\* The Collection's indices under lookups, inserts, removals and decode.
Spec == Init /\ [][Next]_vars

\* The same, with threads that also call used_bytes.
SpecUsedBytes == Init /\ [][NextUsedBytes]_vars

\* An omap iterator and a thread updating the omap.
InitO == CollAtRest /\ InitOmap /\ CodecAtRest /\ InitTxn /\ ExtAtRest
SpecOmap == InitO /\ [][NextOmap]_vars

\* Encode, then decode, of a Collection.
InitC == CollAtRest /\ InitOmap /\ InitCodec /\ InitTxn /\ ExtAtRest
SpecCodec == InitC /\ [][NextCodec]_vars

\* Threads submitting transaction batches.
SpecTxn == InitO /\ [][NextTxn]_vars

\* Batches submitted on sequencers, called by the threads.
SpecSeq == InitO /\ [][NextSeq]_vars

\* The engine applying batches to the registry.
SpecStore == InitO /\ [][NextStore]_vars

\* A caller listing a Collection, call after call, until the cursor is max.
InitL ==
  /\ CollAtRest /\ InitOmap /\ CodecAtRest /\ InitTxn
  /\ InitSeq /\ InitStore /\ InitList /\ PayAtRest /\ InitRef /\ InitLock
  /\ WalkAtRest
SpecList == InitL /\ [][NextList]_vars /\ WF_vars(NextList)

\* Writes, truncates and clones on the payloads of two objects.
InitP ==
  /\ CollAtRest /\ InitOmap /\ CodecAtRest /\ InitTxn
  /\ InitSeq /\ InitStore /\ ListAtRest /\ InitPay /\ InitRef /\ InitLock
  /\ WalkAtRest
SpecPay == InitP /\ [][NextPay]_vars

\* Threads that look up, read, create and remove the object of one key.
SpecRef == InitO /\ [][NextRef]_vars

\* Threads that take the lock of the indices and the locks of an object.
SpecLock == InitO /\ [][NextLock]_vars

\* A caller walking an omap from its first key to its end, again and again.
InitW ==
  /\ CollAtRest /\ InitOmap /\ CodecAtRest /\ InitTxn
  /\ InitSeq /\ InitStore /\ ListAtRest /\ PayAtRest /\ InitRef /\ InitLock
  /\ InitWalk
SpecWalk == InitW /\ [][NextWalk]_vars /\ WF_vars(WalkLoop)

(***************************************************************************)
(* Properties of the Collection's indices.                                 *)
(***************************************************************************)
IndicesAgree ==
  /\ DOMAIN object_hash = DOMAIN object_map
  /\ \A k \in DOMAIN object_hash :
       object_hash[k] = object_map[k] /\ object_hash[k] # NullRef

C2_Idempotent ==
  [][\A t \in Threads :
       LET k == th[t].key
       IN  (th[t].op = "get_or_create_object" /\ th'[t] # th[t]) =>
             /\ (th'[t].pc = "goc_unlock" /\ hist[k].obj # NullRef) =>
                  (th'[t].ret = hist[k].obj /\ ~th[t].ins)
             /\ hist'[k].ctor <= 1
             /\ (k \in DOMAIN object_hash /\ object_hash[k] # NullRef) =>
                  object_hash'[k] = object_hash[k]
             /\ k \in DOMAIN object_map => object_map'[k] = object_map[k]
             /\ \A o \in 1..Len(objects) : objects'[o] = objects[o]]_vars

\* C2 witness: a later call returns the object an earlier call constructed.
C2_Witness ==
  \E t \in Threads :
    /\ th[t].pc = "goc_unlock" /\ ~th[t].ins
    /\ hist[th[t].key].ctor = 1
    /\ th[t].ret = hist[th[t].key].obj

\* C3: get_object holds the index lock in read mode from its lookup to its
\* return and not after; what it is about to return is the empty reference
\* when the key is absent and the stored reference when it is present; and
\* none of its steps changes an index or an object.
C3_GetObject ==
  /\ [](\A t \in Threads :
          /\ th[t].op = "get_object" => (t \in lock.r /\ lock.w = 0)
          /\ th[t].pc = "idle" => (t \notin lock.r /\ lock.w # t)
          /\ th[t].pc = "go_ret" =>
               IF th[t].key \in DOMAIN object_hash
               THEN th[t].ret = object_hash[th[t].key] /\ th[t].ret # NullRef
               ELSE th[t].ret = NullRef)
  /\ [][\A t \in Threads :
          ((th[t].op = "get_object" \/ th'[t].op = "get_object")
             /\ th'[t] # th[t]) =>
            UNCHANGED <<object_hash, object_map, objects>>]_vars

\* C3 witness: two concurrent lookups under the read lock, one of a stored
\* key and one of an absent key.
C3_Witness ==
  \E t, u \in Threads :
    /\ th[t].pc = "go_ret" /\ th[t].ret # NullRef
    /\ th[u].pc = "go_ret" /\ th[u].ret = NullRef


\* C7: while a used_bytes is walking object_map no other thread changes
\* object_map (the walk holds the lock in read mode), and the value it
\* returns is the sum of the sizes of the objects that were in the index at
\* one single moment of the call.
C7_UsedBytesSnapshot ==
  /\ [][(\E t \in Threads : th[t].pc = "ub_iter") => object_map' = object_map]_vars
  /\ [](\A t \in Threads : th[t].pc = "ub_ret" => th[t].ret \in th[t].sums)

(***************************************************************************)
(* Properties of the omap iterator.                                        *)
(***************************************************************************)
\* C4: no iterator operation reads the omap or its cursor while the thread
\* that updates the omap holds omap_mutex: the iterator holds the mutex
\* itself at each of its accesses.
C4_AccessUnderLock ==
  [][iter.pc = "access" /\ iter'.pc = "ret" => omap_mutex = "iter"]_vars

\* C5: after the omap has changed between two calls, valid() is true only of
\* a cursor on an entry of the omap as it is now, and key() of a cursor that
\* is not at the end returns a key of the omap as it is now.
C5_CursorOnCurrentEntry ==
  [][(iter.pc = "access" /\ iter'.pc = "ret" /\ ~Racing) =>
       /\ (iter.op = "valid" /\ iter'.ret = TRUE) => OnNode
       /\ (iter.op = "key" /\ it # OEnd) => iter'.ret \in DOMAIN omap]_vars

\* The keys a seek may stop on, and the one it is to stop on.
SeekCandidates ==
  {k \in DOMAIN omap : \/ seek.kind = "seek_to_first"
                       \/ seek.kind = "lower_bound" /\ k >= seek.arg
                       \/ seek.kind = "upper_bound" /\ k > seek.arg}
SeekTarget == IF SeekCandidates = {} THEN OEnd ELSE MinOf(SeekCandidates)

\* C6: as long as the omap has not changed since a seek (and next() was not
\* called), the cursor is on the smallest key >= k for lower_bound(k), > k for
\* upper_bound(k), the smallest key for seek_to_first; valid() is false
\* exactly when there is no such key, key() and value() return that key and
\* its value; the seeks return 0 and no iterator step changes the omap.
C6_Seek ==
  /\ [](seek.fresh => it = SeekTarget /\ ~it_dangling)
  /\ []((seek.fresh /\ iter.pc = "ret") =>
          /\ iter.op = "valid" => iter.ret = (SeekCandidates # {})
          /\ (iter.op = "key" /\ SeekCandidates # {}) => iter.ret = SeekTarget
          /\ (iter.op = "value" /\ SeekCandidates # {}) =>
               iter.ret = omap[SeekTarget])
  /\ []((iter.pc = "ret" /\ iter.op \in SeekOps) => iter.ret = 0)
  /\ [][iter' # iter => omap' = omap]_vars

\* lower_bound(k) with k in the omap and a smaller key before it, then key().
C6_Witness ==
  /\ seek.fresh /\ seek.kind = "lower_bound" /\ seek.arg = MaxOKey
  /\ DOMAIN omap = OKeys
  /\ iter.pc = "ret" /\ iter.op = "key" /\ iter.ret = MaxOKey

(***************************************************************************)
(* Properties of the encoding.                                             *)
(***************************************************************************)
\* C8: decoding the encoding of a Collection into a newly constructed
\* Collection, whatever flag it was constructed with, succeeds, consumes the
\* whole stream and yields the encoded Collection: the same keys in both
\* indices, the same attributes and flag, and equal objects.
C8_RoundTrip ==
  (cstage = "decoded" /\ ctamper = "none") =>
    /\ cdst.ok
    /\ cdst.v = csrc
    /\ cdst.off = Len(cstream)

\* A Collection of several objects with attributes and omap entries, decoded
\* into a Collection constructed with the other flag.
C8_Witness ==
  /\ cstage = "decoded" /\ ctamper = "none"
  /\ cdst.ok /\ cdst.v.use_page_set
  /\ Cardinality(DOMAIN cdst.v.object_hash) > 1
  /\ \E k \in DOMAIN cdst.v.object_map :
       /\ cdst.v.object_map[k].omap # EmptyMap
       /\ cdst.v.object_map[k].pages # EmptyMap

\* C9: the decode of a stream whose struct_compat is past the decoder's
\* version, or that is shorter than its declared length, or that holds fewer
\* objects than it declares, throws.
C9_DecodeThrows ==
  (cstage = "decoded" /\ ctamper # "none") => ~cdst.ok

\* A decode that threw after it had inserted an object.
C9_Witness ==
  /\ cstage = "decoded" /\ ctamper \in {"compat", "count"}
  /\ ~cdst.ok
  /\ cdst.v.object_map # EmptyMap

(***************************************************************************)
(* Properties of the application of transactions.                          *)
(***************************************************************************)
\* C10: the thread applying a batch holds apply_lock from the batch's first
\* operation to its last, and in the order of application the operations of
\* a batch are contiguous and in the batch's order.
C10_BatchesDoNotInterleave ==
  /\ \A t \in Threads : tx[t].pc = "apply" => apply_lock = t
  /\ \A a, b \in 1..Len(applied) :
       (a < b /\ applied[a][1] = applied[b][1]) =>
         /\ applied[b][2] = applied[a][2] + (b - a)
         /\ \A c \in a..b : applied[c][1] = applied[a][1]

\* A batch of several operations is part applied, after another batch, while
\* a batch submitted on another sequencer waits.
C10_Witness ==
  \E t, u \in Threads :
    /\ tx[t].pc = "apply" /\ tx[t].n > 1 /\ tx[t].i = tx[t].n
    /\ tx[u].pc = "wait" /\ tx[u].osr # tx[t].osr
    /\ Len(applied) > tx[t].n


\* The positions in the order of application of the operations of batch b.
AppliedAt(b) == {a \in 1..Len(applied) : applied[a][1] = b}

ReadAll(objs, heap, o) == Read(objs, heap, o, 0, MaxData)

\* C14: a clone leaves in a range of the destination the bytes a range of
\* the source had, and changes nothing else of the destination and nothing
\* of the source; a write or a truncate of one object changes no read of
\* the other, also when the two objects hold a page in common.
C14_CloneCopies ==
  /\ [][plast'.kind = "clone" =>
          \/ UNCHANGED <<pay, pheap>>
          \/ /\ ReadAll(pay', pheap', 1) = ReadAll(pay, pheap, 1)
             /\ get_size(pay'[1]) = get_size(pay[1])
             /\ \E src \in {ReadAll(pay, pheap, 1)},
                   old \in {ReadAll(pay, pheap, 2)},
                   new \in {ReadAll(pay', pheap', 2)} :
                  \E len \in 1..MaxData, so, do \in 0..(MaxData - 1) :
                    /\ so + len <= MaxData /\ do + len <= MaxData
                    /\ get_size(pay'[2]) = MaxOf(get_size(pay[2]), do + len)
                    /\ \A k \in 1..MaxData :
                         new[k] = IF k > do /\ k <= do + len
                                  THEN src[so + k - do] ELSE old[k]]_vars
  /\ [][plast'.kind \in {"write", "truncate"} =>
          \A o \in PayObjs :
            o # plast'.o =>
              /\ get_size(pay'[o]) = get_size(pay[o])
              /\ ReadAll(pay', pheap', o) = ReadAll(pay, pheap, o)]_vars

\* The source was written where it held a page in common with the
\* destination of a clone, and the destination still reads what was cloned.
C14_Witness ==
  /\ plast.kind = "write" /\ plast.o = 1 /\ plast.cow
  /\ \E i \in PageIdx : pay[1].pages[i] # 0 /\ pay[2].pages[i] # 0
                        /\ pheap[pay[1].pages[i]] # pheap[pay[2].pages[i]]

\* C15: a truncate to a smaller size keeps the bytes below it and a
\* truncate to a larger size adds zeros only, also when it follows a
\* truncate to a size inside a page: the bytes cut off do not come back.
C15_TruncateZeroFills ==
  [][plast'.kind = "truncate" =>
       LET o == plast'.o
           s == get_size(pay[o])
           s2 == get_size(pay'[o])
       IN  \/ UNCHANGED <<pay, pheap>>
           \/ /\ s2 <= s
              /\ ReadAll(pay', pheap', o)
                   = Read(pay, pheap, o, 0, s2) \o Zeros(MaxData - s2)
           \/ /\ s2 > s
              /\ Read(pay', pheap', o, s, s2 - s) = Zeros(s2 - s)
              /\ Read(pay', pheap', o, 0, s) = Read(pay, pheap, o, 0, s)]_vars

\* A paged object of two pages of nonzero bytes was cut inside its second
\* page and then grown to two pages again.
C15_Witness ==
  /\ plast.kind = "truncate" /\ plast.hist = "regrown"
  /\ pay[plast.o].paged
  /\ get_size(pay[plast.o]) = 2 * page_size
  /\ \E s \in (page_size + 1)..(2 * page_size - 1) :
       ReadAll(pay, pheap, plast.o)
         = [k \in 1..s |-> MaxByte] \o Zeros(MaxData - s)


\* The references to the object: those of the two indices and of the callers.
RefsTo(id) ==
  (IF rhash = id THEN 1 ELSE 0) + (IF rmap = id THEN 1 ELSE 0)
    + Cardinality({t \in Threads : rth[t].ref = id})

\* C16: an object is alive while an index or a caller holds a reference to
\* it, and is destroyed at the end of the last one; a caller that got its
\* reference before the removal reads what the object held.
C16_AliveWhileReferenced ==
  /\ [](\A id \in RefObjs :
          robj[id].made =>
            /\ robj[id].nref = RefsTo(id)
            /\ robj[id].alive <=> RefsTo(id) > 0
            /\ robj[id].alive => robj[id].data = robj[id].born)
  /\ [](\A t \in Threads :
          rth[t].ret.done => rth[t].ret.val = robj[rth[t].ref].born)
  /\ [][\A id \in RefObjs :
          (robj[id].alive /\ ~robj'[id].alive) =>
            (RefsTo(id) = 1 /\ RefsTo(id)' = 0)]_vars

\* A caller has read, through a reference it got before the removal, an
\* object that is in no index any more; nothing else refers to the object.
C16_Witness ==
  \E t \in Threads :
    /\ rth[t].ref # NullRef
    /\ rhash # rth[t].ref /\ rmap # rth[t].ref
    /\ rth[t].ret.done /\ ~rth[t].ret.indexed
    /\ rth[t].ret.val = robj[rth[t].ref].born
    /\ robj[rth[t].ref].nref = 1


\* The objects that the two indices hold.
Indexed ==
  {object_hash[k] : k \in DOMAIN object_hash}
    \cup {object_map[k] : k \in DOMAIN object_map}

WaitsFor(a, b) ==
  \/ /\ kth[a].pc = "want_index"
     /\ \/ klock.w = b
        \/ kth[a].op = "get_or_create_object" /\ b \in klock.r
  \/ /\ kth[a].pc = "want_object"
     /\ olock[kth[a].want] = b

\* C18: no thread holds Collection::lock together with a lock of an object;
\* a thread back from get_object or get_or_create_object does not hold
\* Collection::lock; an operation of an omap iterator never takes it; a
\* thread that waits for a lock holds none, so no threads wait in a cycle.
C18_LockHierarchy ==
  /\ [](\A t \in Threads : ~(HoldsIndex(t) /\ HoldsObject(t)))
  /\ [](\A t \in Threads : HoldsIndex(t) <=> kth[t].pc = "in_index")
  /\ [](\A t \in Threads : kth[t].op = "iterator" => ~HoldsIndex(t))
  /\ [](\A a, b \in Threads :
          WaitsFor(a, b) => ~HoldsIndex(a) /\ ~HoldsObject(a) /\ ~WaitsFor(b, a))

\* A handler that has looked its object up waits for the omap_mutex that an
\* omap iterator holds.
C18_Witness ==
  \E a, b \in Threads :
    /\ kth[a].op = "handler" /\ kth[a].pc = "want_object"
    /\ kth[b].op = "iterator" /\ kth[b].pc = "in_object"
    /\ WaitsFor(a, b)


\* C19: of the calls of get_or_create_object for a key that is absent only
\* one constructs an object and every one returns the object stored under
\* the key; a get_object between them returns the empty reference only when
\* the key is in neither index, and otherwise that object; no thread but
\* the one holding the write lock sees a key stored with the empty
\* reference.
C19_OneObjectPerKey ==
  /\ [](\A k \in Keys : hist[k].ctor <= 1)
  /\ [](\A t \in Threads :
          th[t].pc = "goc_unlock" =>
            /\ th[t].ret # NullRef
            /\ th[t].ret = object_hash[th[t].key]
            /\ th[t].ret = object_map[th[t].key]
            /\ th[t].ret = hist[th[t].key].obj)
  /\ [](\A t \in Threads :
          th[t].pc = "go_ret" =>
            IF th[t].ret = NullRef
            THEN th[t].key \notin DOMAIN object_hash
                 /\ th[t].key \notin DOMAIN object_map
            ELSE th[t].ret = object_hash[th[t].key]
                 /\ th[t].ret = object_map[th[t].key])
  /\ [](phase = "shared" /\ lock.w = 0 =>
          \A k \in DOMAIN object_hash : object_hash[k] # NullRef)

\* Two threads are in get_object for the key of the one object that
\* get_or_create_object constructed for it: one has it, one is to find it.
C19_Witness ==
  \E a, b \in Threads :
    /\ a # b /\ th[a].key = th[b].key
    /\ th[a].pc = "go_ret" /\ th[b].pc = "go_find"
    /\ hist[th[a].key].ctor = 1
    /\ th[a].ret # NullRef /\ th[a].ret = hist[th[a].key].obj


\* C20: from a new iterator, or from seek_to_first(), next() while valid()
\* visits the keys of the omap in ascending order, each once, key() and
\* value() returning the stored pair; valid() is false once the last key
\* was visited, and at once on an empty omap; next(), seek_to_first() and
\* status() return 0; every walk comes to its end.
C20_WalkVisitsAll ==
  /\ [](\A i \in 1..Len(wseen) :
          /\ wseen[i][1] \in DOMAIN womap
          /\ wseen[i][2] = womap[wseen[i][1]]
          /\ \A j \in 1..Len(wseen) : i < j => wseen[i][1] < wseen[j][1])
  /\ [](wpc = "done" =>
          /\ {wseen[i][1] : i \in 1..Len(wseen)} = DOMAIN womap
          /\ wret.op = "valid" => wret.val = FALSE)
  /\ [](wret.op = "valid" /\ wret.val = FALSE =>
          Len(wseen) = Cardinality(DOMAIN womap))
  /\ [](wret.op \in {"next", "seek_to_first", "status"} => wret.val = 0)
  /\ []<>(wpc = "done")

\* A walk over an omap of all the keys has ended after a seek_to_first():
\* valid() has returned false and every pair was returned.
C20_Witness ==
  /\ wpc = "done" /\ wret.op = "valid" /\ ~wret.val
  /\ DOMAIN womap = OKeys
  /\ Len(wseen) = MaxOKey
  /\ wit = OEnd

=============================================================================
